---- MODULE Spec2Model ----
(***************************************************************************)
(* Model of the sensor_toolkit package: the cleaners (remove_duplicates,   *)
(* clamp_outliers, fill_missing_timestamps) and the row validators         *)
(* (validate_reading, validate_batch, validate_rows).                      *)
(*                                                                         *)
(* A datetime is modelled as an integer number of seconds from a base      *)
(* instant, a float as a record that is either NaN or a number, a str as   *)
(* the sequence of its code points (so that str comparison is the lexical  *)
(* comparison Python performs).                                            *)
(***************************************************************************)
EXTENDS Integers, Sequences, FiniteSets, Bags, TLC

VARIABLES
    readings,     \* the caller's input list of SensorReading
    interval,     \* interval_seconds of fill_missing_timestamps
    ranges,       \* <<temp_range, pressure_range, humidity_range>> of clamp_outliers
    rows,         \* the caller's input list of row dicts of validate_rows
    op,           \* the function that was called ("none" before the call)
    pc,           \* position of the call: "idle", "walk", "gap", "done", "MemoryError"
    result,       \* the list built / returned by a cleaner
    report,       \* the ValidationResult returned by a validator
    by_sensor,    \* fill_missing_timestamps: the per-sensor sorted lists, in dict order
    k,            \* fill_missing_timestamps: index of the sensor being walked
    i,            \* fill_missing_timestamps: index of the reading being walked
    expected_ts,  \* fill_missing_timestamps: loop variable of the placeholder loop
    values,       \* the list of floats given to _compute_stats
    z_threshold,  \* z_threshold of detect_anomalies
    pow_far,      \* the C library of the build: the |x| for which pow(x, 2.0)
                  \* is not the binary64 nearest to x * x but the one on its other side
    python,       \* the interpreter of the build: the release of CPython, whose
                  \* builtin sum and list sort differ between releases
    heap          \* the objects a cleaner works on: the SensorReading objects,
                  \* the list objects and the names by_sensor and result of the call

vars == <<readings, interval, ranges, rows, op, pc, result, report,
          by_sensor, k, i, expected_ts, values, z_threshold, pow_far, python, heap>>

----------------------------------------------------------------------------
(* Bounds of the model *)

\* longest input list of the cleaners
MaxLen == 3
\* largest timestamp (seconds from the base instant)
MaxTs == 3
\* largest interval_seconds
MaxInterval == 2
\* longest input list of clamp_outliers
MaxClampLen == 2
\* longest input list of validate_rows
MaxRows == 3
\* longest input list of the stepwise fill_missing_timestamps
MaxStepLen == 2
\* longest sample given to _compute_stats (the known sample apart)
MaxSample == 3
\* longest input list of calculate_statistics and detect_anomalies
MaxStatsLen == 3
\* longest input list of validate_batch
MaxBatch == 3
\* longest input list of the calls compared across sensors and with the filled list
MaxPipelineLen == 3
\* longest input list of detect_anomalies on the readings of one sensor
MaxFewLen == 5
\* longest input list of generate_report
MaxReportLen == 2

----------------------------------------------------------------------------
(* float: NaN or a number.  Every comparison with NaN is false. *)

NaN == [nan |-> TRUE, val |-> 0]
Num(x) == [nan |-> FALSE, val |-> x]
isnan(x) == x.nan

FLt(a, b) == ~a.nan /\ ~b.nan /\ a.val < b.val
FLe(a, b) == ~a.nan /\ ~b.nan /\ a.val <= b.val

\* Python's builtin min(a, b): the first argument unless the second is smaller
PyMin(a, b) == IF FLt(b, a) THEN b ELSE a
\* Python's builtin max(a, b): the first argument unless the second is greater
PyMax(a, b) == IF FLt(a, b) THEN b ELSE a

----------------------------------------------------------------------------
(* Natural numbers of any size, for the significands of float arithmetic:  *)
(* little-endian sequences of limbs in 0..LimbBase-1, the last limb not 0, *)
(* the empty sequence for 0.  The operations are functions, so that an     *)
(* argument is evaluated once, at the call.  Carries are resolved by       *)
(* look-ahead instead of limb-by-limb recursion.                           *)

LimbBits == 13
LimbBase == 2^LimbBits

Big == Seq(Nat)

Limb(a, n) == IF n >= 1 /\ n <= Len(a) THEN a[n] ELSE 0

\* a without its zero limbs at the high end
BigNorm[a \in Big] ==
    SubSeq(a, 1, CHOOSE n \in 0..Len(a) :
                     /\ n = 0 \/ a[n] # 0
                     /\ \A m \in (n + 1)..Len(a) : a[m] = 0)

\* the number n >= 0 of the model's integers
BigOfInt[n \in Nat] ==
    BigNorm[<<n % LimbBase, (n \div LimbBase) % LimbBase, n \div (LimbBase * LimbBase)>>]

\* -1, 0 or 1 as a < b, a = b or a > b
BigCmp[a \in Big, b \in Big] ==
    IF a = b THEN 0
    ELSE IF Len(a) # Len(b) THEN (IF Len(a) < Len(b) THEN -1 ELSE 1)
    ELSE IF \E n \in DOMAIN a :
                a[n] < b[n] /\ \A m \in (n + 1)..Len(a) : a[m] = b[m]
         THEN -1 ELSE 1

\* one round of carrying: every column keeps its low limb and takes the
\* excess of the column below
CarryPass[c \in Big] ==
    [n \in 1..(Len(c) + 1) |-> (Limb(c, n) % LimbBase) + (Limb(c, n - 1) \div LimbBase)]

\* the number whose columns, none above LimbBase, are x: a column takes a
\* carry of 1 when a column below is LimbBase and every column between
\* them is LimbBase - 1 or LimbBase
CarryLookAhead[x \in Big] ==
    BigNorm[[n \in 1..(Len(x) + 1) |->
                (Limb(x, n)
                 + (IF \E j \in 1..(n - 1) :
                          /\ x[j] >= LimbBase
                          /\ \A m \in (j + 1)..(n - 1) : x[m] >= LimbBase - 1
                    THEN 1 ELSE 0)) % LimbBase]]

\* the number whose columns, each below 2^30, are c: after three rounds no
\* column exceeds LimbBase
BigCarry[c \in Big] == CarryLookAhead[CarryPass[CarryPass[CarryPass[c]]]]

BigAdd[a \in Big, b \in Big] ==
    BigCarry[[n \in 1..(IF Len(a) > Len(b) THEN Len(a) ELSE Len(b)) |->
                Limb(a, n) + Limb(b, n)]]

\* a - b for a >= b: a limb borrows 1 when a limb below is less in a than
\* in b and no limb between them is greater in a than in b
BigSub[a \in Big, b \in Big] ==
    BigNorm[[n \in DOMAIN a |->
                (a[n] - Limb(b, n) + LimbBase
                 - (IF \E j \in 1..(n - 1) :
                          /\ a[j] < Limb(b, j)
                          /\ \A m \in (j + 1)..(n - 1) : a[m] <= Limb(b, m)
                    THEN 1 ELSE 0)) % LimbBase]]

\* a * d for a limb d
BigMulLimb[a \in Big, d \in Nat] == BigCarry[[n \in DOMAIN a |-> a[n] * d]]

\* column n of the product: the sum of a[m] * b[n + 1 - m] for m from 1 to upto
BigMulColumn[a \in Big, b \in Big, n \in Nat, upto \in Nat] ==
    IF upto = 0 THEN 0
    ELSE a[upto] * Limb(b, n + 1 - upto) + BigMulColumn[a, b, n, upto - 1]

BigMul[a \in Big, b \in Big] ==
    BigCarry[[n \in 1..(Len(a) + Len(b)) |-> BigMulColumn[a, b, n, Len(a)]]]

\* a * 2^bits
BigShl[a \in Big, bits \in Nat] ==
    IF a = <<>> THEN a
    ELSE [m \in 1..(bits \div LimbBits) |-> 0] \o BigMulLimb[a, 2^(bits % LimbBits)]

\* floor(a / 2^bits)
BigShr[a \in Big, bits \in Nat] ==
    IF (bits \div LimbBits) >= Len(a) THEN <<>>
    ELSE BigNorm[[n \in 1..(Len(a) - (bits \div LimbBits)) |->
                    (a[n + (bits \div LimbBits)] \div 2^(bits % LimbBits))
                    + (Limb(a, n + (bits \div LimbBits) + 1) % 2^(bits % LimbBits))
                      * 2^(LimbBits - (bits % LimbBits))]]

\* number of binary digits of a
BigBitLen[a \in Big] ==
    IF a = <<>> THEN 0
    ELSE LimbBits * (Len(a) - 1)
         + (CHOOSE n \in 1..LimbBits : 2^(n - 1) <= a[Len(a)] /\ a[Len(a)] < 2^n)

BigIsOdd(a) == a # <<>> /\ a[1] % 2 = 1

\* number of zero binary digits at the low end of a # 0
BigTrailingZeros[a \in Big] ==
    CHOOSE z \in 0..(LimbBits * Len(a)) :
        /\ \A m \in 1..(z \div LimbBits) : a[m] = 0
        /\ a[(z \div LimbBits) + 1] % 2^((z % LimbBits) + 1) = 2^(z % LimbBits)

\* the limb d with d * b <= cur < (d + 1) * b, for cur < b * LimbBase and b
\* with its top limb at least LimbBase / 2: at most 2 below hat, the
\* quotient of the two top limbs of cur by the top limb of b
BigDivDigit[cur \in Big, b \in Big, hat \in Nat] ==
    CHOOSE d \in (hat - 2)..hat :
        /\ d >= 0
        /\ d < LimbBase
        /\ BigCmp[BigMulLimb[b, d], cur] <= 0
        /\ BigCmp[BigMulLimb[b, d + 1], cur] > 0

\* <<q * LimbBase + d, cur - d * b>> for the limb d of the quotient of cur by b
BigDivPut[cur \in Big, b \in Big, q \in Big, d \in Nat] ==
    <<BigNorm[<<d>> \o q], BigSub[cur, BigMulLimb[b, d]]>>

\* <<quotient, remainder>> of q * LimbBase + cur by b, for cur < b * LimbBase
BigDivStep[cur \in Big, b \in Big, q \in Big] ==
    BigDivPut[cur, b, q,
              BigDivDigit[cur, b,
                          (Limb(cur, Len(b) + 1) * LimbBase + Limb(cur, Len(b)))
                              \div b[Len(b)]]]

\* the step of the long division that takes in limb n of a
BigDivNext[a \in Big, b \in Big, n \in Nat, prev \in Big \X Big] ==
    BigDivStep[BigNorm[<<a[n]>> \o prev[2]], b, prev[1]]

\* <<quotient, remainder>> of the number made of the limbs n.. of a by b
BigDivLimbs[a \in Big, b \in Big, n \in Nat] ==
    IF n > Len(a) - Len(b) + 1 THEN <<<<>>, SubSeq(a, n, Len(a))>>
    ELSE BigDivNext[a, b, n, BigDivLimbs[a, b, n + 1]]

\* floor(a / b) for b # 0: long division after scaling both by the power of
\* 2 that brings the top limb of b to LimbBase / 2 or more
BigDiv[a \in Big, b \in Big] ==
    IF BigCmp[a, b] < 0 THEN <<>>
    ELSE Head(BigDivLimbs[BigShl[a, LimbBits * Len(b) - BigBitLen[b]],
                          BigShl[b, LimbBits * Len(b) - BigBitLen[b]], 1])

\* one step of Newton's iteration for the square root of a
BigSqrtNext[a \in Big, p \in Big] == BigShr[BigAdd[p, BigDiv[a, p]], 1]

\* Newton's iteration for the square root of a, n times from r >= sqrt(a)
BigSqrtNewton[a \in Big, r \in Big, n \in Nat] ==
    IF n = 0 THEN r
    ELSE BigSqrtNext[a, BigSqrtNewton[a, r, n - 1]]

\* the t among r - 1, r and r + 1 with t^2 <= a < (t + 1)^2
BigSqrtPick[a \in Big, r \in Big] ==
    CHOOSE t \in {BigSub[r, <<1>>], r, BigAdd[r, <<1>>]} :
        /\ BigCmp[BigMul[t, t], a] <= 0
        /\ BigCmp[BigMul[BigAdd[t, <<1>>], BigAdd[t, <<1>>]], a] > 0

\* floor(sqrt(a)) for a # 0: the iteration from the power of 2 above the
\* root closes in on it from above
BigSqrt[a \in Big] ==
    BigSqrtPick[a, BigSqrtNewton[a, BigShl[<<1>>, (BigBitLen[a] + 1) \div 2], 7]]

----------------------------------------------------------------------------
(* float arithmetic: IEEE 754 binary64, every operation rounded to nearest *)
(* with ties to even.  A number is a record with val = [neg, man, exp],    *)
(* its value (-1)^neg * man * 2^exp with man odd (man = <<>>, exp = 0,     *)
(* neg = FALSE for zero); NaN is the NaN of the cleaners.  The exponent    *)
(* is not bounded: overflow, underflow and infinities are outside the      *)
(* model, whose values are physical measurements of moderate magnitude.    *)

\* binary digits of a binary64 significand
Precision == 53

Float == {NaN} \cup [nan : {FALSE}, val : [neg : BOOLEAN, man : Big, exp : Int]]

DblZero == [nan |-> FALSE, val |-> [neg |-> FALSE, man |-> <<>>, exp |-> 0]]

\* the number (-1)^neg * m * 2^e, for m of at most Precision binary digits
Dbl[neg \in BOOLEAN, m \in Big, e \in Int] ==
    IF m = <<>> THEN DblZero
    ELSE [nan |-> FALSE,
          val |-> [neg |-> neg,
                   man |-> BigShr[m, BigTrailingZeros[m]],
                   exp |-> e + BigTrailingZeros[m]]]

\* float(n) of an int n
DblOfInt[n \in Int] == Dbl[n < 0, BigOfInt[IF n < 0 THEN -n ELSE n], 0]

\* q or q + 1 as the binary64 nearest to (q + rest) * 2^e, where c is -1, 0
\* or 1 as rest is below, at or above one half, and something more is above
\* rest when sticky
DblRoundTo[neg \in BOOLEAN, q \in Big, c \in Int, e \in Int, sticky \in BOOLEAN] ==
    Dbl[neg,
        IF c > 0 \/ (c = 0 /\ (sticky \/ BigIsOdd(q))) THEN BigAdd[q, <<1>>] ELSE q,
        e]

\* the rounding of m * 2^e that drops the shift > 0 low binary digits of m
DblRoundAt[neg \in BOOLEAN, m \in Big, e \in Int, sticky \in BOOLEAN, shift \in Nat] ==
    DblRoundTo[neg, BigShr[m, shift],
               BigCmp[BigSub[m, BigShl[BigShr[m, shift], shift]],
                      BigShl[<<1>>, shift - 1]],
               e + shift, sticky]

\* the binary64 nearest to (-1)^neg * (m + s) * 2^e, where 0 < s < 1 when
\* sticky and s = 0 otherwise (sticky only for m of Precision + 2 digits or more)
DblRound[neg \in BOOLEAN, m \in Big, e \in Int, sticky \in BOOLEAN] ==
    IF BigBitLen[m] <= Precision THEN Dbl[neg, m, e]
    ELSE DblRoundAt[neg, m, e, sticky, BigBitLen[m] - Precision]

\* -x
DblNeg[x \in Float] ==
    IF x.nan \/ x.val.man = <<>> THEN x
    ELSE [x EXCEPT !.val.neg = ~x.val.neg]

\* abs(x)
DblAbs[x \in Float] == IF x.nan THEN x ELSE [x EXCEPT !.val.neg = FALSE]

\* the sum of the numbers (-1)^an * a * 2^e and (-1)^bn * b * 2^e: the sum
\* of a and b with their sign, or the difference of the greater and the
\* smaller with the sign of the greater (zero for a = b)
DblAddAligned[an \in BOOLEAN, a \in Big, bn \in BOOLEAN, b \in Big, e \in Int] ==
    DblRound[IF an = bn \/ BigCmp[a, b] > 0 THEN an ELSE bn,
             IF an = bn THEN BigAdd[a, b]
             ELSE IF BigCmp[a, b] > 0 THEN BigSub[a, b]
             ELSE BigSub[b, a],
             e, FALSE]

\* a - b when a > b, else 0
Excess(a, b) == IF a > b THEN a - b ELSE 0

\* x + y: the number with the greater exponent is brought to the exponent of
\* the other
DblAdd[x \in Float, y \in Float] ==
    IF x.nan \/ y.nan THEN NaN
    ELSE DblAddAligned[x.val.neg, BigShl[x.val.man, Excess(x.val.exp, y.val.exp)],
                       y.val.neg, BigShl[y.val.man, Excess(y.val.exp, x.val.exp)],
                       IF x.val.exp < y.val.exp THEN x.val.exp ELSE y.val.exp]

\* x - y
DblSub[x \in Float, y \in Float] == DblAdd[x, DblNeg[y]]

\* x * y
DblMul[x \in Float, y \in Float] ==
    IF x.nan \/ y.nan THEN NaN
    ELSE DblRound[x.val.neg # y.val.neg, BigMul[x.val.man, y.val.man],
                  x.val.exp + y.val.exp, FALSE]

\* the rounding of the quotient q of num by den, inexact when q * den # num
DblDivRound[neg \in BOOLEAN, num \in Big, den \in Big, q \in Big, e \in Int] ==
    DblRound[neg, q, e, BigMul[q, den] # num]

\* a * 2^ae / (b * 2^be), the quotient taken after scaling a by 2^s
DblDivScaled[neg \in BOOLEAN, a \in Big, ae \in Int, b \in Big, be \in Int, s \in Nat] ==
    DblDivRound[neg, BigShl[a, s], b, BigDiv[BigShl[a, s], b], ae - be - s]

\* x / y; Python raises ZeroDivisionError for y = 0, whatever x is
DblDiv[x \in Float, y \in Float] ==
    IF ~y.nan /\ y.val.man = <<>> THEN "ZeroDivisionError"
    ELSE IF x.nan \/ y.nan THEN NaN
    ELSE IF x.val.man = <<>> THEN DblZero
    ELSE DblDivScaled[x.val.neg # y.val.neg, x.val.man, x.val.exp, y.val.man, y.val.exp,
                      IF Precision + 2 + BigBitLen[y.val.man] > BigBitLen[x.val.man]
                      THEN Precision + 2 + BigBitLen[y.val.man] - BigBitLen[x.val.man]
                      ELSE 0]

\* the rounding of the root r of num, inexact when r * r # num
DblSqrtRound[num \in Big, r \in Big, e \in Int] ==
    DblRound[FALSE, r, e, BigMul[r, r] # num]

\* sqrt(a * 2^ae), the root taken after scaling a by 2^s, with ae - s even
DblSqrtScaled[a \in Big, ae \in Int, s \in Nat] ==
    DblSqrtRound[BigShl[a, s], BigSqrt[BigShl[a, s]], (ae - s) \div 2]

\* the least s with len + s >= 2 * (Precision + 2) and e - s even
DblSqrtShift[len \in Nat, e \in Int] ==
    LET s == IF 2 * (Precision + 2) > len THEN 2 * (Precision + 2) - len ELSE 0
    IN  s + ((e - s) % 2)

\* math.sqrt(x); Python raises ValueError for x < 0
DblSqrt[x \in Float] ==
    IF x.nan THEN NaN
    ELSE IF x.val.man = <<>> THEN DblZero
    ELSE IF x.val.neg THEN "ValueError"
    ELSE DblSqrtScaled[x.val.man, x.val.exp,
                       DblSqrtShift[BigBitLen[x.val.man], x.val.exp]]

\* x < y, x <= y, x == y: false when either is NaN
DblLt[x \in Float, y \in Float] == ~x.nan /\ ~y.nan /\ DblSub[x, y].val.neg
DblLe[x \in Float, y \in Float] == ~x.nan /\ ~y.nan /\ ~DblSub[y, x].val.neg
DblEq[x \in Float, y \in Float] == ~x.nan /\ ~y.nan /\ x = y

----------------------------------------------------------------------------
(* str: sequence of code points; a < b is Python's lexical comparison *)

StrLt(a, b) ==
    \E n \in 1..(Len(a) + 1) :
        /\ \A m \in 1..(n - 1) : m <= Len(b) /\ a[m] = b[m]
        /\ n <= Len(b)
        /\ (n > Len(a) \/ a[n] < b[n])

StrLe(a, b) == a = b \/ StrLt(a, b)

----------------------------------------------------------------------------
(* SensorReading *)

SensorReading(ts, sid, t, p, h) ==
    [timestamp |-> ts, sensor_id |-> sid, temperature |-> t, pressure |-> p,
     humidity |-> h]

Key(r) == <<r.timestamp, r.sensor_id>>

\* the measured fields, in the order the analyzers check them
FieldNames == <<"temperature", "pressure", "humidity">>

Field(r, f) ==
    CASE f = 1 -> r.temperature
      [] f = 2 -> r.pressure
      [] f = 3 -> r.humidity

----------------------------------------------------------------------------
(* remove_duplicates *)

RECURSIVE DedupLoop(_, _, _, _)
DedupLoop(rs, n, seen, acc) ==
    IF n > Len(rs) THEN acc
    ELSE IF Key(rs[n]) \notin seen
         THEN DedupLoop(rs, n + 1, seen \cup {Key(rs[n])}, Append(acc, rs[n]))
         ELSE DedupLoop(rs, n + 1, seen, acc)

\* mutant: the key also holds the temperature, so only exact repeats are dropped
RECURSIVE DedupByValue(_, _, _, _)
DedupByValue(rs, n, seen, acc) ==
    IF n > Len(rs) THEN acc
    ELSE IF <<Key(rs[n]), rs[n].temperature>> \notin seen
         THEN DedupByValue(rs, n + 1, seen \cup {<<Key(rs[n]), rs[n].temperature>>},
                           Append(acc, rs[n]))
         ELSE DedupByValue(rs, n + 1, seen, acc)

remove_duplicates_by_value(rs) == DedupByValue(rs, 1, {}, <<>>)

remove_duplicates(rs) == DedupLoop(rs, 1, {}, <<>>)

----------------------------------------------------------------------------
(* clamp_outliers *)

DefaultRanges == << <<Num(-40), Num(150)>>, <<Num(0), Num(1000)>>, <<Num(0), Num(100)>> >>

\* mutant: min and max are exchanged
ClampSwapped(range, v) == PyMin(range[1], PyMax(range[2], v))

Clamp(range, v) == PyMax(range[1], PyMin(range[2], v))

\* mutant: the pressure is computed from the reading's temperature
ClampReadingWrongField(r, rg) ==
    SensorReading(r.timestamp, r.sensor_id,
                  PyMax(rg[1][1], PyMin(rg[1][2], r.temperature)),
                  PyMax(rg[2][1], PyMin(rg[2][2], r.temperature)),
                  PyMax(rg[3][1], PyMin(rg[3][2], r.humidity)))

ClampReading(r, rg) ==
    SensorReading(r.timestamp, r.sensor_id,
                  Clamp(rg[1], r.temperature),
                  Clamp(rg[2], r.pressure),
                  Clamp(rg[3], r.humidity))

clamp_outliers(rs, rg) == [n \in 1..Len(rs) |-> ClampReading(rs[n], rg)]

----------------------------------------------------------------------------
(* list.sort(key=...): stable, ascending *)

TsLt(a, b) == a.timestamp < b.timestamp

\* mutant: the final sort compares the timestamp only
KeyLtTimestampOnly(a, b) == a.timestamp < b.timestamp

\* tuple comparison of (timestamp, sensor_id)
KeyLt(a, b) ==
    \/ a.timestamp < b.timestamp
    \/ a.timestamp = b.timestamp /\ StrLt(a.sensor_id, b.sensor_id)

\* list.sort and sorted are stable: the place of s[n] in the sorted list is behind
\* the smaller elements and behind the equal elements that stand in front of it in s
PlaceByTs(s, n) ==
    Cardinality({m \in DOMAIN s : TsLt(s[m], s[n])})
    + Cardinality({m \in 1..(n - 1) : ~TsLt(s[m], s[n]) /\ ~TsLt(s[n], s[m])})
    + 1

\* sort(key=lambda r: r.timestamp)
SortByTs(s) ==
    LET place == [n \in DOMAIN s |-> PlaceByTs(s, n)]
    IN  [p \in 1..Len(s) |-> s[CHOOSE n \in DOMAIN s : place[n] = p]]

\* mutant: a sort that is not stable, readings of one key come out in reverse order
SortByKeyUnstable(s) ==
    LET place == [n \in DOMAIN s |->
                    Cardinality({m \in DOMAIN s : KeyLt(s[m], s[n])})
                    + Cardinality({m \in (n + 1)..Len(s) :
                                     ~KeyLt(s[m], s[n]) /\ ~KeyLt(s[n], s[m])})
                    + 1]
    IN  [p \in 1..Len(s) |-> s[CHOOSE n \in DOMAIN s : place[n] = p]]

PlaceByKey(s, n) ==
    Cardinality({m \in DOMAIN s : KeyLt(s[m], s[n])})
    + Cardinality({m \in 1..(n - 1) : ~KeyLt(s[m], s[n]) /\ ~KeyLt(s[n], s[m])})
    + 1

\* sort(key=lambda r: (r.timestamp, r.sensor_id))
SortByKey(s) ==
    LET place == [n \in DOMAIN s |-> PlaceByKey(s, n)]
    IN  [p \in 1..Len(s) |-> s[CHOOSE n \in DOMAIN s : place[n] = p]]

----------------------------------------------------------------------------
(* fill_missing_timestamps *)

Placeholder(ts, sid) == SensorReading(ts, sid, NaN, NaN, NaN)

\* the keys of by_sensor in dict (first appearance) order
RECURSIVE SensorOrder(_, _, _)
SensorOrder(rs, n, acc) ==
    IF n > Len(rs) THEN acc
    ELSE IF \E m \in 1..Len(acc) : acc[m] = rs[n].sensor_id
         THEN SensorOrder(rs, n + 1, acc)
         ELSE SensorOrder(rs, n + 1, Append(acc, rs[n].sensor_id))

OfSensor(rs, sid) == SelectSeq(rs, LAMBDA r : r.sensor_id = sid)

\* by_sensor after grouping and the per-sensor sort, as the list of its values
GroupBySensor(rs) ==
    LET order == SensorOrder(rs, 1, <<>>)
    IN  [n \in 1..Len(order) |-> SortByTs(OfSensor(rs, order[n]))]

\* mutant: the loop runs while expected_ts <= next_ts
RECURSIVE GapPlaceholdersInclusive(_, _, _, _)
GapPlaceholdersInclusive(sid, expected, next_ts, step) ==
    IF expected <= next_ts
    THEN <<Placeholder(expected, sid)>>
         \o GapPlaceholdersInclusive(sid, expected + step, next_ts, step)
    ELSE <<>>

\* mutant: expected_ts advances by two intervals
RECURSIVE GapPlaceholdersSparse(_, _, _, _)
GapPlaceholdersSparse(sid, expected, next_ts, step) ==
    IF expected < next_ts
    THEN <<Placeholder(expected, sid)>>
         \o GapPlaceholdersSparse(sid, expected + 2 * step, next_ts, step)
    ELSE <<>>

\* mutant: an if in the place of the while, one placeholder for a gap
GapPlaceholdersOnce(sid, expected, next_ts, step) ==
    IF expected < next_ts THEN <<Placeholder(expected, sid)>> ELSE <<>>

\* mutant: the first placeholder stands at the timestamp of the reading
GapPlaceholdersFromReading(sid, expected, next_ts, step) ==
    IF expected < next_ts
    THEN <<Placeholder(expected - step, sid), Placeholder(expected, sid)>>
    ELSE <<>>

\* the while loop: placeholders from expected up to, not including, next_ts
RECURSIVE GapPlaceholders(_, _, _, _)
GapPlaceholders(sid, expected, next_ts, step) ==
    IF expected < next_ts
    THEN <<Placeholder(expected, sid)>> \o GapPlaceholders(sid, expected + step, next_ts, step)
    ELSE <<>>

\* mutant: the walk stops in front of the sensor's last reading
RECURSIVE WalkSensorSkipLast(_, _, _)
WalkSensorSkipLast(srs, n, step) ==
    IF n >= Len(srs) THEN <<>>
    ELSE <<srs[n]>>
         \o GapPlaceholders(srs[n].sensor_id, srs[n].timestamp + step,
                            srs[n + 1].timestamp, step)
         \o WalkSensorSkipLast(srs, n + 1, step)

\* the inner for loop over one sensor's readings, from index n
RECURSIVE WalkSensor(_, _, _)
WalkSensor(srs, n, step) ==
    IF n > Len(srs) THEN <<>>
    ELSE <<srs[n]>>
         \o (IF n < Len(srs)
             THEN GapPlaceholders(srs[n].sensor_id, srs[n].timestamp + step,
                                  srs[n + 1].timestamp, step)
             ELSE <<>>)
         \o WalkSensor(srs, n + 1, step)

\* the outer for loop over by_sensor.items(), from index n
RECURSIVE WalkAll(_, _, _)
WalkAll(groups, n, step) ==
    IF n > Len(groups) THEN <<>>
    ELSE WalkSensor(groups[n], 1, step) \o WalkAll(groups, n + 1, step)

fill_missing_timestamps(rs, step) ==
    IF rs = <<>> THEN <<>>
    ELSE SortByKey(WalkAll(GroupBySensor(rs), 1, step))

----------------------------------------------------------------------------
(* validate_reading, validate_batch *)

\* [A-Z0-9]
IsUpperAlnum(c) == c \in 65..90 \/ c \in 48..57

\* SENSOR_ID_PATTERN.match: ^TI-[A-Z0-9]{4}-[A-Z0-9]{4}$, where $ also matches
\* in front of a newline that ends the string
MatchesSensorIdPattern(sid) ==
    LET body == IF Len(sid) = 13 /\ sid[13] = 10 THEN SubSeq(sid, 1, 12) ELSE sid
    IN  /\ Len(body) = 12
        /\ body[1] = 84 /\ body[2] = 73 /\ body[3] = 45
        /\ \A n \in 4..7 : IsUpperAlnum(body[n])
        /\ body[8] = 45
        /\ \A n \in 9..12 : IsUpperAlnum(body[n])

RANGE_CHECKS ==
    << <<"Temperature", Num(-40), Num(150)>>,
       <<"Pressure", Num(0), Num(1000)>>,
       <<"Humidity", Num(0), Num(100)>> >>

\* getattr(reading, field.lower())
FieldOf(r, name) ==
    CASE name = "Temperature" -> r.temperature
      [] name = "Pressure" -> r.pressure
      [] name = "Humidity" -> r.humidity

\* an error message, by the field it is about and the value it quotes
Message(field, value) == [field |-> field, value |-> value]

\* not min_val <= value <= max_val
OutOfRange(value, min_val, max_val) == ~(FLe(min_val, value) /\ FLe(value, max_val))

RECURSIVE RangeErrors(_, _)
RangeErrors(r, n) ==
    IF n > Len(RANGE_CHECKS) THEN <<>>
    ELSE (IF OutOfRange(FieldOf(r, RANGE_CHECKS[n][1]), RANGE_CHECKS[n][2], RANGE_CHECKS[n][3])
          THEN <<Message(RANGE_CHECKS[n][1], FieldOf(r, RANGE_CHECKS[n][1]))>>
          ELSE <<>>)
         \o RangeErrors(r, n + 1)

validate_reading(r) ==
    (IF ~MatchesSensorIdPattern(r.sensor_id)
     THEN <<Message("sensor_id", r.sensor_id)>> ELSE <<>>)
    \o RangeErrors(r, 1)

\* the errors list of validate_batch: index is the position in its argument
RECURSIVE BatchErrors(_, _)
BatchErrors(rs, n) ==
    IF n > Len(rs) THEN <<>>
    ELSE (IF validate_reading(rs[n]) # <<>>
          THEN <<[index |-> n - 1, messages |-> validate_reading(rs[n])]>>
          ELSE <<>>)
         \o BatchErrors(rs, n + 1)

\* mutant: the positions are counted from 1
validate_batch_from_one(rs) ==
    LET errors == [n \in DOMAIN BatchErrors(rs, 1) |->
                    [BatchErrors(rs, 1)[n] EXCEPT !.index = @ + 1]]
    IN  [total |-> Len(rs),
         valid |-> Len(rs) - Len(errors),
         invalid |-> Len(errors),
         errors |-> errors]

validate_batch(rs) ==
    LET errors == BatchErrors(rs, 1)
    IN  [total |-> Len(rs),
         valid |-> Len(rs) - Len(errors),
         invalid |-> Len(errors),
         errors |-> errors]

----------------------------------------------------------------------------
(* _parse_row, validate_rows.  A row is a dict from column names to cell   *)
(* texts; the conversions are given on the cell texts of the model.        *)

Columns == <<"timestamp", "sensor_id", "temperature", "pressure", "humidity">>

Ok(v) == [ok |-> TRUE, val |-> v]
Raise(exc) == [ok |-> FALSE, val |-> exc]

\* datetime.fromisoformat
fromisoformat(text) ==
    CASE text = "2024-01-15T10:30:00" -> Ok(0)
      [] text = "2024-01-15T10:30:01" -> Ok(1)
      [] OTHER -> Raise("ValueError")

\* float
float(text) ==
    CASE text = "25.0" -> Ok(Num(25))
      [] text = "500.0" -> Ok(Num(500))
      [] text = "50.0" -> Ok(Num(50))
      [] text = "200.0" -> Ok(Num(200))
      [] text = "-1.0" -> Ok(Num(-1))
      [] text = "nan" -> Ok(NaN)
      [] OTHER -> Raise("ValueError")

\* the code points of a sensor_id cell
str(text) ==
    CASE text = "TI-A1B2-C3D4" -> <<84, 73, 45, 65, 49, 66, 50, 45, 67, 51, 68, 52>>
      [] text = "TI-a1b2-C3D4" -> <<84, 73, 45, 97, 49, 98, 50, 45, 67, 51, 68, 52>>
      [] text = "BAD" -> <<66, 65, 68>>
      [] OTHER -> <<>>

\* row[column] followed by the conversion: KeyError when the column is missing
Cell(row, column) ==
    IF column \notin DOMAIN row THEN Raise("KeyError")
    ELSE CASE column = "timestamp" -> fromisoformat(row[column])
           [] column = "sensor_id" -> Ok(str(row[column]))
           [] OTHER -> float(row[column])

\* the first column, in keyword order, whose evaluation raises (0 if none)
FirstFailure(row) ==
    IF \E n \in DOMAIN Columns : ~Cell(row, Columns[n]).ok
    THEN CHOOSE n \in DOMAIN Columns :
            /\ ~Cell(row, Columns[n]).ok
            /\ \A m \in 1..(n - 1) : Cell(row, Columns[m]).ok
    ELSE 0

\* a SensorReading, or the error string "Row {index}: {exc}"
parse_row(row, index) ==
    IF FirstFailure(row) = 0
    THEN Ok(SensorReading(Cell(row, "timestamp").val, Cell(row, "sensor_id").val,
                          Cell(row, "temperature").val, Cell(row, "pressure").val,
                          Cell(row, "humidity").val))
    ELSE Raise([index |-> index,
                exc |-> Cell(row, Columns[FirstFailure(row)]).val,
                column |-> Columns[FirstFailure(row)]])

RECURSIVE ParseErrors(_, _)
ParseErrors(rws, n) ==
    IF n > Len(rws) THEN <<>>
    ELSE (IF ~parse_row(rws[n], n - 1).ok
          THEN <<[index |-> n - 1, messages |-> <<parse_row(rws[n], n - 1).val>>]>>
          ELSE <<>>)
         \o ParseErrors(rws, n + 1)

RECURSIVE ParsedReadings(_, _)
ParsedReadings(rws, n) ==
    IF n > Len(rws) THEN <<>>
    ELSE (IF parse_row(rws[n], n - 1).ok THEN <<parse_row(rws[n], n - 1).val>> ELSE <<>>)
         \o ParsedReadings(rws, n + 1)

IndexLt(a, b) == a.index < b.index

PlaceByIndex(s, n) ==
    Cardinality({m \in DOMAIN s : IndexLt(s[m], s[n])})
    + Cardinality({m \in 1..(n - 1) : ~IndexLt(s[m], s[n]) /\ ~IndexLt(s[n], s[m])})
    + 1

\* sorted(all_errors, key=lambda e: e["index"])
SortByIndex(s) ==
    LET place == [n \in DOMAIN s |-> PlaceByIndex(s, n)]
    IN  [p \in 1..Len(s) |-> s[CHOOSE n \in DOMAIN s : place[n] = p]]

validate_rows(rws) ==
    LET parse_errors == ParseErrors(rws, 1)
        batch_result == validate_batch(ParsedReadings(rws, 1))
        all_errors == parse_errors \o batch_result.errors
        invalid_count == Len(parse_errors) + batch_result.invalid
    IN  [total |-> Len(rws),
         valid |-> Len(rws) - invalid_count,
         invalid |-> invalid_count,
         errors |-> SortByIndex(all_errors)]

----------------------------------------------------------------------------
(* analyzers: _compute_stats.  Its floats are binary64 numbers. *)

FieldStats(mean, median, std, min, max) ==
    [mean |-> mean, median |-> median, std |-> std, min |-> min, max |-> max]

\* the releases of CPython the package runs on (3.10 behaves as 3.11 here)
Pythons == {"3.11", "3.12", "3.13"}

OldestPython == "3.11"

\* one release for each builtin sum: a list of numbers is sorted to the same
\* list by every release
PythonsBySum == {"3.11", "3.12"}

\* from CPython 3.12 on the builtin sum of floats is compensated
CompensatedSum == python \in {"3.12", "3.13"}

\* from CPython 3.13 on the sort looks for runs of equal elements in a
\* descending run
EqualRuns == python = "3.13"

\* sum of the first n elements of s, added from left to right starting from 0:
\* the builtin sum up to CPython 3.11
SumLeftToRight[s \in Seq(Float), n \in Nat] ==
    IF n = 0 THEN DblZero ELSE DblAdd[SumLeftToRight[s, n - 1], s[n]]

\* (a - t) + b: the rounding error of t = a + b when |b| <= |a|
TwoSumError[a \in Float, b \in Float, t \in Float] == DblAdd[DblSub[a, t], b]

\* <<t, c + error>> for t = f_result + x, the error taken from the greater of
\* f_result and x, which is f_result when f_first
NeumaierPut[fc \in Float \X Float, x \in Float, t \in Float, f_first \in BOOLEAN] ==
    <<t, DblAdd[fc[2],
                TwoSumError[IF f_first THEN fc[1] ELSE x,
                            IF f_first THEN x ELSE fc[1], t]]>>

\* one float x added to the pair <<f_result, c>> of the compensated sum: the
\* rounding error of f_result + x is added to c
NeumaierStep[fc \in Float \X Float, x \in Float] ==
    NeumaierPut[fc, x, DblAdd[fc[1], x], DblLe[DblAbs[x], DblAbs[fc[1]]]]

\* <<f_result, c>> after the first n > 0 elements of s: the first is added to
\* the int 0, the others are floats added to a float
NeumaierUpTo[s \in Seq(Float), n \in Nat] ==
    IF n = 1 THEN <<DblAdd[DblZero, s[1]], DblZero>>
    ELSE NeumaierStep[NeumaierUpTo[s, n - 1], s[n]]

\* the compensation is added at the end when it is neither zero nor NaN
CompensatedTotal[fc \in Float \X Float] ==
    IF fc[2].nan \/ fc[2].val.man = <<>> THEN fc[1] ELSE DblAdd[fc[1], fc[2]]

\* the builtin sum of floats from CPython 3.12 on, of the first n elements of s
SumCompensated[s \in Seq(Float), n \in Nat] ==
    IF n = 0 THEN DblZero ELSE CompensatedTotal[NeumaierUpTo[s, n]]

\* sum(s[:n]) in the build
SumUpTo[s \in Seq(Float), n \in Nat] ==
    IF CompensatedSum THEN SumCompensated[s, n] ELSE SumLeftToRight[s, n]

\* sum(s)
Sum(s) == SumUpTo[s, Len(s)]

\* sum(values) / n
mean[vals \in Seq(Float)] == DblDiv[Sum(vals), DblOfInt[Len(vals)]]

\* sorted(values) is the list sort of CPython, which compares with < only; a
\* list of fewer than 64 elements is sorted as one run: the run the list starts
\* with is found by count_run, the other elements are put in by binarysort

\* the positions a..b of s in reverse order
ReverseSlice[s \in Seq(Float), a \in Nat, b \in Nat] ==
    [p \in 1..Len(s) |-> IF a <= p /\ p <= b THEN s[a + b - p] ELSE s[p]]

\* the end of the run that goes on from position n while no element is smaller
\* than the one before it
AscendingTo[s \in Seq(Float), n \in Nat] ==
    CHOOSE j \in n..Len(s) :
        /\ j = Len(s) \/ DblLt[s[j + 1], s[j]]
        /\ \A m \in n..(j - 1) : ~DblLt[s[m + 1], s[m]]

\* the end of the run that goes on from position n while every element is
\* smaller than the one before it
DescendingTo[s \in Seq(Float), n \in Nat] ==
    CHOOSE j \in n..Len(s) :
        /\ j = Len(s) \/ ~DblLt[s[j + 1], s[j]]
        /\ \A m \in n..(j - 1) : DblLt[s[m + 1], s[m]]

\* the list with its first n elements, a descending run, made ascending
ReversedRun[s \in Seq(Float), n \in Nat] == <<ReverseSlice[s, 1, n], n>>

\* count_run up to CPython 3.12, for a list of two elements or more: the list
\* with its first run made ascending, and the length of the run
count_run_strict[s \in Seq(Float)] ==
    IF DblLt[s[2], s[1]] THEN ReversedRun[s, DescendingTo[s, 1]]
    ELSE <<s, AscendingTo[s, 1]>>

\* REVERSE_LAST_NEQ: the last neq + 1 of the first n elements, which are equal,
\* are reversed
ReverseLastNeq[s \in Seq(Float), n \in Nat, neq \in Nat] ==
    IF neq = 0 THEN s ELSE ReverseSlice[s, n - neq, n]

\* the descending run of n elements is made ascending and goes on with the
\* elements that follow in ascending order
FinishRun[s \in Seq(Float), n \in Nat] ==
    <<ReverseSlice[s, 1, n], AscendingTo[ReverseSlice[s, 1, n], n]>>

\* the loop over a descending run of CPython 3.13: n elements are in the run,
\* the last neq + 1 of them are equal
DescendingRun[s \in Seq(Float), n \in Nat, neq \in Nat] ==
    IF n >= Len(s) THEN FinishRun[ReverseLastNeq[s, n, neq], n]
    ELSE IF DblLt[s[n + 1], s[n]] THEN DescendingRun[ReverseLastNeq[s, n, neq], n + 1, 0]
    ELSE IF DblLt[s[n], s[n + 1]] THEN FinishRun[ReverseLastNeq[s, n, neq], n]
    ELSE DescendingRun[s, n + 1, neq + 1]

\* count_run from CPython 3.13 on, for a list of two elements or more: an
\* ascending run that ends with a smaller element and consists of equal
\* elements starts a descending run
count_run_equal[s \in Seq(Float)] ==
    IF AscendingTo[s, 1] = Len(s) \/ DblLt[s[1], s[AscendingTo[s, 1]]]
    THEN <<s, AscendingTo[s, 1]>>
    ELSE DescendingRun[ReverseSlice[s, 1, AscendingTo[s, 1]], AscendingTo[s, 1] + 1, 0]

\* count_run in the build
count_run(s) == IF EqualRuns THEN count_run_equal[s] ELSE count_run_strict[s]

\* the number of elements of s[l + 1..r] in front of which pivot is not put:
\* it is compared with the element in the middle
Bisect[s \in Seq(Float), pivot \in Float, l \in Nat, r \in Nat] ==
    IF l >= r THEN l
    ELSE IF DblLt[pivot, s[((l + r) \div 2) + 1]] THEN Bisect[s, pivot, l, (l + r) \div 2]
    ELSE Bisect[s, pivot, ((l + r) \div 2) + 1, r]

\* the element at position from put at position to <= from, the elements
\* between them moved one position up
MoveTo[s \in Seq(Float), from \in Nat, to \in Nat] ==
    [p \in 1..Len(s) |->
        IF p < to \/ p > from THEN s[p] ELSE IF p = to THEN s[from] ELSE s[p - 1]]

\* binarysort: the first ok elements are sorted, each of the others is put
\* where the bisection of the elements in front of it ends
binarysort[s \in Seq(Float), ok \in Nat] ==
    IF ok >= Len(s) THEN s
    ELSE binarysort[MoveTo[s, ok + 1, Bisect[s, s[ok + 1], 0, ok] + 1], ok + 1]

\* the list and its first run, sorted
SortRun[run \in Seq(Float) \X Nat] == binarysort[run[1], run[2]]

\* sorted(values)
sorted(vals) == IF Len(vals) < 2 THEN vals ELSE SortRun[count_run(vals)]

\* the median of a sorted list of n > 0 values (indices from 1)
MedianOfSorted[sorted_vals \in Seq(Float)] ==
    IF Len(sorted_vals) % 2 = 0
    THEN DblDiv[DblAdd[sorted_vals[Len(sorted_vals) \div 2],
                       sorted_vals[(Len(sorted_vals) \div 2) + 1]],
                DblOfInt[2]]
    ELSE sorted_vals[(Len(sorted_vals) \div 2) + 1]

\* mutant: the central elements are taken from the list as it was given
median_of_unsorted(vals) == MedianOfSorted[vals]

median(vals) == MedianOfSorted[sorted(vals)]

\* x * x is a binary64: the product of the significands has at most Precision
\* binary digits
SquareExact[x \in Float] ==
    x.nan \/ BigBitLen[BigMul[x.val.man, x.val.man]] <= Precision

\* the binary64 next below (up = FALSE) and next above (up = TRUE) m * 2^e, for
\* an m of more than Precision binary digits
SquareCut[m \in Big, e \in Int, up \in BOOLEAN] ==
    Dbl[FALSE,
        IF up THEN BigAdd[BigShr[m, BigBitLen[m] - Precision], <<1>>]
        ELSE BigShr[m, BigBitLen[m] - Precision],
        e + BigBitLen[m] - Precision]

\* x ** 2 of two floats is pow(x, 2.0) of the C library, whose result is within
\* one unit in the last place of x * x and depends on the library: x * x when
\* that is a binary64, else the binary64 next below or the one next above
SquareOutcomes[x \in Float] ==
    IF SquareExact[x] THEN {DblMul[x, x]}
    ELSE {SquareCut[BigMul[x.val.man, x.val.man], 2 * x.val.exp, up] : up \in BOOLEAN}

\* of the two binary64 next to m * 2^e, the one that is not the nearest
SquareFar[m \in Big, e \in Int, nearest \in Float] ==
    IF SquareCut[m, e, FALSE] = nearest THEN SquareCut[m, e, TRUE]
    ELSE SquareCut[m, e, FALSE]

\* x ** 2 in the build: the outcome nearest to x * x, except for the arguments
\* in pow_far, where it is the other outcome
Square[x \in Float] ==
    IF x.nan \/ DblAbs[x] \notin pow_far \/ SquareExact[x] THEN DblMul[x, x]
    ELSE SquareFar[BigMul[x.val.man, x.val.man], 2 * x.val.exp, DblMul[x, x]]

\* the x - mean of the values whose square is not a binary64
DeviationsFrom[vals \in Seq(Float), m \in Float] ==
    {x \in {DblAbs[DblSub[vals[n], m]] : n \in DOMAIN vals} : ~SquareExact[x]}

\* the arguments of ** 2 in _compute_stats(values) whose square is not a binary64
Deviations(vals) == IF vals = <<>> THEN {} ELSE DeviationsFrom[vals, mean[vals]]

\* sum((x - mean) ** 2 for x in values) / n
variance[vals \in Seq(Float), m \in Float] ==
    DblDiv[Sum([n \in DOMAIN vals |-> Square[DblSub[vals[n], m]]]), DblOfInt[Len(vals)]]

\* the builtin min keeps its result unless the next value is smaller
MinStep[acc \in Float, v \in Float] == IF DblLt[v, acc] THEN v ELSE acc

MinUpTo[s \in Seq(Float), n \in Nat] ==
    IF n = 1 THEN s[1] ELSE MinStep[MinUpTo[s, n - 1], s[n]]

\* min(values)
min(vals) == MinUpTo[vals, Len(vals)]

\* the builtin max keeps its result unless the next value is greater
MaxStep[acc \in Float, v \in Float] == IF DblLt[acc, v] THEN v ELSE acc

MaxUpTo[s \in Seq(Float), n \in Nat] ==
    IF n = 1 THEN s[1] ELSE MaxStep[MaxUpTo[s, n - 1], s[n]]

\* max(values)
max(vals) == MaxUpTo[vals, Len(vals)]

\* the statistics of a sample that is not empty and has the mean m
StatsOfMean[vals \in Seq(Float), m \in Float] ==
    FieldStats(m, median(vals), DblSqrt[variance[vals, m]], min(vals), max(vals))

\* mutant: an empty sample has the statistics 0
compute_stats_zero_if_empty(vals) ==
    IF vals = <<>> THEN FieldStats(DblZero, DblZero, DblZero, DblZero, DblZero)
    ELSE StatsOfMean[vals, mean[vals]]

\* _compute_stats(values)
compute_stats(vals) ==
    IF vals = <<>> THEN FieldStats(NaN, NaN, NaN, NaN, NaN)
    ELSE StatsOfMean[vals, mean[vals]]

----------------------------------------------------------------------------
(* analyzers: calculate_statistics.  A dict is the list of its items, pairs *)
(* <<key, value>>, in the order the keys were inserted.                     *)

StatsResult(sensor_id, reading_count, temperature, pressure, humidity) ==
    [sensor_id |-> sensor_id, reading_count |-> reading_count,
     temperature |-> temperature, pressure |-> pressure, humidity |-> humidity]

Keys(d) == {d[n][1] : n \in DOMAIN d}

\* d[key], for a key of d
Get(d, key) == d[CHOOSE n \in DOMAIN d : d[n][1] = key][2]

\* mutant: the values of the field in the readings of all sensors
FieldValuesOfAll(rs, sid, f) ==
    LET kept == SelectSeq(rs, LAMBDA r : ~isnan(Field(r, f)))
    IN  [n \in DOMAIN kept |-> Field(kept[n], f)]

\* by_sensor[sid][field]: the non-NaN values of the field in the sensor's
\* readings, in input order
FieldValues(rs, sid, f) ==
    LET kept == SelectSeq(rs, LAMBDA r : r.sensor_id = sid /\ ~isnan(Field(r, f)))
    IN  [n \in DOMAIN kept |-> Field(kept[n], f)]

\* the arguments of ** 2 in calculate_statistics(rs) whose square is not a
\* binary64, over the sensors and fields of the readings
PowArguments(rs) ==
    UNION {Deviations(FieldValues(rs, rs[n].sensor_id, f)) :
               n \in DOMAIN rs, f \in DOMAIN FieldNames}

\* by_sensor after the loop over the readings
StatsBySensor(rs) ==
    LET order == SensorOrder(rs, 1, <<>>)
    IN  [n \in DOMAIN order |->
            <<order[n], [f \in DOMAIN FieldNames |-> FieldValues(rs, order[n], f)]>>]

\* mutant: the least of the three lengths
count_min(sensor_data) ==
    CHOOSE c \in {Len(sensor_data[f]) : f \in DOMAIN sensor_data} :
        \A f \in DOMAIN sensor_data : c <= Len(sensor_data[f])

\* count = max(len(v) for v in sensor_data.values())
count(sensor_data) ==
    CHOOSE c \in {Len(sensor_data[f]) : f \in DOMAIN sensor_data} :
        \A f \in DOMAIN sensor_data : Len(sensor_data[f]) <= c

\* the StatsResult with the statistics of the three fields
StatsResultOf(sensor_id, reading_count, stats) ==
    StatsResult(sensor_id, reading_count, stats[1], stats[2], stats[3])

\* the item results[sensor_id] of one item of by_sensor
StatsItem[item \in Seq(Nat) \X Seq(Seq(Float))] ==
    <<item[1], StatsResultOf(item[1], count(item[2]),
                             [f \in DOMAIN item[2] |-> compute_stats(item[2][f])])>>

\* the results of the items of by_sensor
StatsItems[items \in Seq(Seq(Nat) \X Seq(Seq(Float)))] ==
    [n \in DOMAIN items |-> StatsItem[items[n]]]

\* mutant: a sensor gets an entry only when one of its values is not NaN
calculate_statistics_of_measured(rs) ==
    StatsItems[SelectSeq(StatsBySensor(rs), LAMBDA item : count(item[2]) > 0)]

calculate_statistics(rs) == StatsItems[StatsBySensor(rs)]

----------------------------------------------------------------------------
(* analyzers: detect_anomalies.  The reading of an Anomaly is a reference  *)
(* to an object of the caller's list, modelled as its position there.      *)

Anomaly(reading, field, value, z_score) ==
    [reading |-> reading, field |-> field, value |-> value, z_score |-> z_score]

\* the objects of the classes FieldStats, StatsResult and SensorReading
AnyFieldStats == [mean : Float, median : Float, std : Float, min : Float, max : Float]

AnyStatsResult ==
    [sensor_id : Seq(Nat), reading_count : Nat,
     temperature : AnyFieldStats, pressure : AnyFieldStats, humidity : AnyFieldStats]

AnySensorReading ==
    [timestamp : Int, sensor_id : Seq(Nat),
     temperature : Float, pressure : Float, humidity : Float]

\* the default of z_threshold
DefaultZThreshold == DblOfInt[2]

\* z = abs(value - fstats.mean) / fstats.std
ZScore[value \in Float, fstats \in AnyFieldStats] ==
    DblDiv[DblAbs[DblSub[value, fstats.mean]], fstats.std]

\* the check of one field of one reading: not skipped, and z > z_threshold
Flagged(value, fstats, threshold) ==
    /\ ~(isnan(value) \/ DblEq[fstats.std, DblZero])
    /\ DblLt[threshold, ZScore[value, fstats]]

\* mutant: the fields are checked one after the other, each over all readings
ChecksFieldByField(rs) ==
    [p \in 1..(Len(FieldNames) * Len(rs)) |->
        <<((p - 1) % Len(rs)) + 1, ((p - 1) \div Len(rs)) + 1>>]

\* the checks in the order the loops make them: <<position of the reading,
\* field>>, for each reading in turn its temperature, pressure and humidity
Checks(rs) ==
    [p \in 1..(Len(FieldNames) * Len(rs)) |->
        <<((p - 1) \div Len(FieldNames)) + 1, ((p - 1) % Len(FieldNames)) + 1>>]

\* s = stats[reading.sensor_id], or nothing when the sensor is not in stats
StatsOfReading[r \in AnySensorReading, stats \in Seq(Seq(Nat) \X AnyStatsResult)] ==
    IF r.sensor_id \in Keys(stats) THEN <<Get(stats, r.sensor_id)>> ELSE <<>>

\* the anomalies appended by the checks, in their order
AnomaliesOf[rs \in Seq(AnySensorReading), stats \in Seq(Seq(Nat) \X AnyStatsResult), threshold \in Float, checks \in Seq(Nat \X Nat)] ==
    LET hit == SelectSeq(checks,
                   LAMBDA c : /\ StatsOfReading[rs[c[1]], stats] # <<>>
                              /\ Flagged(Field(rs[c[1]], c[2]),
                                         Field(Head(StatsOfReading[rs[c[1]], stats]), c[2]),
                                         threshold))
    IN  [n \in DOMAIN hit |->
            Anomaly(hit[n][1], FieldNames[hit[n][2]], Field(rs[hit[n][1]], hit[n][2]),
                    ZScore[Field(rs[hit[n][1]], hit[n][2]),
                           Field(Get(stats, rs[hit[n][1]].sensor_id), hit[n][2])])]

detect_anomalies(rs, threshold) ==
    AnomaliesOf[rs, calculate_statistics(rs), threshold, Checks(rs)]

----------------------------------------------------------------------------
(* analyzers: generate_report.  None is a value of its own; a datetime is  *)
(* the number of seconds after 2024-01-15T10:30:00, within that minute.    *)

None == [none |-> TRUE]

\* "2024-01-15T10:30:", as code points
IsoMinute == <<50, 48, 50, 52, 45, 48, 49, 45, 49, 53, 84, 49, 48, 58, 51, 48, 58>>

\* datetime.isoformat: the seconds are written with two decimal digits
isoformat(ts) == IsoMinute \o <<48 + (ts \div 10), 48 + (ts % 10)>>

\* q or q + 1 as the integer nearest to q + rest, ties to the even one, where
\* c is -1, 0 or 1 as rest is below, at or above one half
NearestEven[q \in Big, c \in Int] ==
    IF c > 0 \/ (c = 0 /\ BigIsOdd(q)) THEN BigAdd[q, <<1>>] ELSE q

\* the integer nearest to m / 2^shift for shift > 0, ties to the even one
NearestInt[m \in Big, shift \in Nat] ==
    NearestEven[BigShr[m, shift],
                BigCmp[BigSub[m, BigShl[BigShr[m, shift], shift]],
                       BigShl[<<1>>, shift - 1]]]

\* round(v, 2) of a number: the decimal of two fractional digits nearest to
\* the exact value of v (ties to the even digit), as the nearest binary64
Round2[v \in Float] ==
    IF v.val.exp >= 0 THEN v
    ELSE DblDiv[Dbl[v.val.neg, NearestInt[BigMul[v.val.man, <<100>>], -v.val.exp], 0],
                DblOfInt[100]]

\* mutant: NaN is rendered as the number 0
rnd_zero_for_nan(v) == IF ~isnan(v) THEN Round2[v] ELSE DblZero

\* rnd(v) of to_dict
rnd(v) == IF ~isnan(v) THEN Round2[v] ELSE None

to_dict(fs) ==
    [mean |-> rnd(fs.mean), median |-> rnd(fs.median), std |-> rnd(fs.std),
     min |-> rnd(fs.min), max |-> rnd(fs.max)]

\* min(timestamps), max(timestamps) of a non-empty list
MinTimestamp(rs) ==
    CHOOSE t \in {rs[n].timestamp : n \in DOMAIN rs} : \A n \in DOMAIN rs : t <= rs[n].timestamp

MaxTimestamp(rs) ==
    CHOOSE t \in {rs[n].timestamp : n \in DOMAIN rs} : \A n \in DOMAIN rs : rs[n].timestamp <= t

\* mutant: the range of the readings of the first sensor
time_range_of_first_sensor(rs) ==
    IF rs # <<>>
    THEN [start |-> isoformat(MinTimestamp(OfSensor(rs, rs[1].sensor_id))),
          end |-> isoformat(MaxTimestamp(OfSensor(rs, rs[1].sensor_id)))]
    ELSE None

time_range(rs) ==
    IF rs # <<>>
    THEN [start |-> isoformat(MinTimestamp(rs)), end |-> isoformat(MaxTimestamp(rs))]
    ELSE None

\* mutant: the readings without value are not counted
total_readings_measured(rs) == Len(SelectSeq(rs, LAMBDA r : ~(isnan(r.temperature) /\ isnan(r.pressure) /\ isnan(r.humidity))))

\* len(readings)
total_readings(rs) == Len(rs)

AnyAnomaly == [reading : Nat, field : STRING, value : Float, z_score : Float]

\* the dict returned, from the values of the local variables stats and
\* anomalies and of datetime.now()
ReportOf[rs \in Seq(AnySensorReading), stats \in Seq(Seq(Nat) \X AnyStatsResult), anomalies \in Seq(AnyAnomaly), now \in Nat] ==
    [generated_at |-> isoformat(now),
     summary |-> [total_readings |-> total_readings(rs),
                  sensor_count |-> Len(stats),
                  time_range |-> time_range(rs)],
     sensors |-> [n \in DOMAIN stats |->
                    <<stats[n][1],
                      [reading_count |-> stats[n][2].reading_count,
                       temperature |-> to_dict(stats[n][2].temperature),
                       pressure |-> to_dict(stats[n][2].pressure),
                       humidity |-> to_dict(stats[n][2].humidity)]>>],
     anomalies |-> [n \in DOMAIN anomalies |->
                    [sensor_id |-> rs[anomalies[n].reading].sensor_id,
                     timestamp |-> isoformat(rs[anomalies[n].reading].timestamp),
                     field |-> anomalies[n].field,
                     value |-> anomalies[n].value,
                     z_score |-> Round2[anomalies[n].z_score]]]]

\* generate_report(readings, z_threshold) when datetime.now() returns now
generate_report(rs, threshold, now) ==
    ReportOf[rs, calculate_statistics(rs), detect_anomalies(rs, threshold), now]

----------------------------------------------------------------------------
(* Inputs *)

RECURSIVE SeqsUpTo(_, _)
SeqsUpTo(S, n) ==
    IF n = 0 THEN {<<>>}
    ELSE LET shorter == SeqsUpTo(S, n - 1)
         IN  shorter \cup {Append(s, x) : s \in {t \in shorter : Len(t) = n - 1}, x \in S}

\* "B" and "AB": the lexical order differs from the order by length
SensorIds == { <<66>>, <<65, 66>> }

Timestamps == 0..MaxTs

Intervals == 1..MaxInterval

\* interval_seconds: int = 60
DefaultIntervalSeconds == 60

\* a measured sample and an all-NaN one (an input reading may look like a placeholder)
Samples == { <<Num(25), Num(500), Num(50)>>, <<NaN, NaN, NaN>> }

\* readings of both sensors with the measured sample, and of the sensor "B"
\* with every sample
Readings ==
    { SensorReading(ts, sid, s[1], s[2], s[3]) :
        ts \in Timestamps, sid \in SensorIds, s \in {<<Num(25), Num(500), Num(50)>>} }
    \cup { SensorReading(ts, <<66>>, s[1], s[2], s[3]) : ts \in Timestamps, s \in Samples }

----------------------------------------------------------------------------
(* The cleaners on the heap.  A list of Python holds references: objs[ref] *)
(* is the SensorReading object with the reference ref, lists[l] is the     *)
(* sequence of references held by the list object l.  by_sensor is the     *)
(* dict of fill_missing_timestamps, its items <<sensor_id, l>> in the      *)
(* order of insertion, and result is the list object the name result of    *)
(* the running call is bound to.  Every statement of a cleaner that makes  *)
(* or changes an object is a function from heap to heap.                   *)

\* the list object the caller passes as readings
InputList == 1

\* the heap when the call starts: the caller's list holds one object for each
\* of its readings
HeapOf(rs) ==
    [objs |-> rs, lists |-> << [n \in DOMAIN rs |-> n] >>, by_sensor |-> <<>>, result |-> 0]

\* the heap of a program that calls no cleaner
NoHeap == HeapOf(<<>>)

\* the readings held by the list object l
Objects(h, l) == [n \in DOMAIN h.lists[l] |-> h.objs[h.lists[l][n]]]

\* result = []: a new list object
ResultList(h) == [h EXCEPT !.lists = Append(@, <<>>), !.result = Len(h.lists) + 1]

\* l.append(reading), for the object with the reference ref
ListAppend(h, l, ref) == [h EXCEPT !.lists[l] = Append(@, ref)]

\* l.append(SensorReading(...)): a new object r
AppendNew(h, l, r) ==
    [h EXCEPT !.objs = Append(@, r), !.lists[l] = Append(@, Len(h.objs) + 1)]

\* the loop of remove_duplicates from index n of the list it iterates
RECURSIVE DedupOnHeap(_, _, _)
DedupOnHeap(h, n, seen) ==
    IF n > Len(h.lists[InputList]) THEN h
    ELSE IF Key(h.objs[h.lists[InputList][n]]) \notin seen
         THEN DedupOnHeap(ListAppend(h, h.result, h.lists[InputList][n]), n + 1,
                          seen \cup {Key(h.objs[h.lists[InputList][n]])})
         ELSE DedupOnHeap(h, n + 1, seen)

\* remove_duplicates(readings) on the heap; the list returned is h.result
remove_duplicates_on(h) == DedupOnHeap(ResultList(h), 1, {})

\* the loop of clamp_outliers from index n of the list it iterates
RECURSIVE ClampOnHeap(_, _, _)
ClampOnHeap(h, rg, n) ==
    IF n > Len(h.lists[InputList]) THEN h
    ELSE ClampOnHeap(AppendNew(h, h.result,
                               ClampReading(h.objs[h.lists[InputList][n]], rg)),
                     rg, n + 1)

\* clamp_outliers(readings, *rg) on the heap
clamp_outliers_on(h, rg) == ClampOnHeap(ResultList(h), rg, 1)

\* reading.sensor_id not in by_sensor
NotInBySensor(h, sid) == \A m \in DOMAIN h.by_sensor : h.by_sensor[m][1] # sid

\* by_sensor[sensor_id], for a key of by_sensor
ListOfSensor(h, sid) == h.by_sensor[CHOOSE m \in DOMAIN h.by_sensor : h.by_sensor[m][1] = sid][2]

\* by_sensor[reading.sensor_id] = []: a new list object
NewSensorList(h, sid) ==
    [h EXCEPT !.lists = Append(@, <<>>),
              !.by_sensor = Append(@, <<sid, Len(h.lists) + 1>>)]

\* the body of the grouping loop for the object with the reference ref
GroupReading(h, ref) ==
    IF NotInBySensor(h, h.objs[ref].sensor_id)
    THEN ListAppend(NewSensorList(h, h.objs[ref].sensor_id), Len(h.lists) + 1, ref)
    ELSE ListAppend(h, ListOfSensor(h, h.objs[ref].sensor_id), ref)

\* the grouping loop from index n of the list it iterates
RECURSIVE GroupOnHeap(_, _)
GroupOnHeap(h, n) ==
    IF n > Len(h.lists[InputList]) THEN h
    ELSE GroupOnHeap(GroupReading(h, h.lists[InputList][n]), n + 1)

\* l.sort(key=lambda r: r.timestamp): the list object l is sorted in place
SortListByTs(h, l) ==
    [h EXCEPT !.lists[l] =
        [p \in DOMAIN h.lists[l] |->
            h.lists[l][CHOOSE n \in DOMAIN h.lists[l] : PlaceByTs(Objects(h, l), n) = p]]]

\* l.sort(key=lambda r: (r.timestamp, r.sensor_id)): the list object l is
\* sorted in place
SortListByKey(h, l) ==
    [h EXCEPT !.lists[l] =
        [p \in DOMAIN h.lists[l] |->
            h.lists[l][CHOOSE n \in DOMAIN h.lists[l] : PlaceByKey(Objects(h, l), n) = p]]]

\* the loop that sorts the lists of by_sensor, from its item m
RECURSIVE SortSensorLists(_, _)
SortSensorLists(h, m) ==
    IF m > Len(h.by_sensor) THEN h
    ELSE SortSensorLists(SortListByTs(h, h.by_sensor[m][2]), m + 1)

\* the while loop: a new placeholder object is appended to result for every
\* expected_ts below next_ts
RECURSIVE FillGapOnHeap(_, _, _, _, _)
FillGapOnHeap(h, sid, expected, next_ts, step) ==
    IF expected < next_ts
    THEN FillGapOnHeap(AppendNew(h, h.result, Placeholder(expected, sid)),
                       sid, expected + step, next_ts, step)
    ELSE h

\* the body of the inner for loop for index n (from 1) of the list object l
\* of the sensor
WalkReading(h, sid, l, n, step) ==
    IF n < Len(h.lists[l])
    THEN FillGapOnHeap(ListAppend(h, h.result, h.lists[l][n]), sid,
                       h.objs[h.lists[l][n]].timestamp + step,
                       h.objs[h.lists[l][n + 1]].timestamp, step)
    ELSE ListAppend(h, h.result, h.lists[l][n])

\* the inner for loop over the list object l of the sensor, from index n
RECURSIVE WalkSensorOnHeap(_, _, _, _, _)
WalkSensorOnHeap(h, sid, l, n, step) ==
    IF n > Len(h.lists[l]) THEN h
    ELSE WalkSensorOnHeap(WalkReading(h, sid, l, n, step), sid, l, n + 1, step)

\* the outer for loop over by_sensor.items(), from its item m
RECURSIVE WalkAllOnHeap(_, _, _)
WalkAllOnHeap(h, m, step) ==
    IF m > Len(h.by_sensor) THEN h
    ELSE WalkAllOnHeap(WalkSensorOnHeap(h, h.by_sensor[m][1], h.by_sensor[m][2], 1, step),
                       m + 1, step)

\* mutant: the final sort is called on readings, the list of the caller
SortCallersList(h) == SortListByKey(h, InputList)

\* result.sort(key=lambda r: (r.timestamp, r.sensor_id))
SortResult(h) == SortListByKey(h, h.result)

\* fill_missing_timestamps(readings, step) on the heap; return [] is a new
\* list object too
fill_missing_timestamps_on(h, step) ==
    IF h.lists[InputList] = <<>> THEN ResultList(h)
    ELSE SortResult(WalkAllOnHeap(ResultList(SortSensorLists(GroupOnHeap(h, 1), 1)), 1, step))

----------------------------------------------------------------------------
(* Spec: one call of a cleaner on an arbitrary input list *)

Idle ==
    /\ op = "none" /\ pc = "idle" /\ result = <<>> /\ report = <<>>
    /\ by_sensor = <<>> /\ k = 0 /\ i = 0 /\ expected_ts = 0

Init ==
    /\ readings \in SeqsUpTo(Readings, MaxLen)
    /\ interval = DefaultIntervalSeconds
    /\ ranges = DefaultRanges
    /\ rows = <<>>
    /\ values = <<>>
    /\ z_threshold = DefaultZThreshold
    /\ pow_far = {}
    /\ python = OldestPython
    /\ heap = NoHeap
    /\ Idle

RemoveDuplicates ==
    /\ pc = "idle"
    /\ op' = "remove_duplicates"
    /\ result' = remove_duplicates(readings)
    /\ pc' = "done"
    /\ UNCHANGED <<pow_far, python, heap, readings, interval, ranges, rows, values, z_threshold, report, by_sensor, k, i, expected_ts>>

ClampOutliers ==
    /\ pc = "idle"
    /\ op' = "clamp_outliers"
    /\ result' = clamp_outliers(readings, ranges)
    /\ pc' = "done"
    /\ UNCHANGED <<pow_far, python, heap, readings, interval, ranges, rows, values, z_threshold, report, by_sensor, k, i, expected_ts>>

\* a call with a positive interval_seconds
FillMissingTimestamps ==
    /\ pc = "idle"
    /\ \E step \in Intervals :
          /\ interval' = step
          /\ result' = fill_missing_timestamps(readings, step)
    /\ op' = "fill_missing_timestamps"
    /\ pc' = "done"
    /\ UNCHANGED <<pow_far, python, heap, readings, ranges, rows, values, z_threshold, report, by_sensor, k, i, expected_ts>>

Next == RemoveDuplicates \/ ClampOutliers \/ FillMissingTimestamps

Spec == Init /\ [][Next]_vars

----------------------------------------------------------------------------
(* SpecHeap: one call of a cleaner on the heap.  readings is the caller's  *)
(* list as it is when the call starts, heap the objects when it returns,   *)
(* and result the readings held by the list that is returned.              *)

InitHeap ==
    /\ readings \in SeqsUpTo(Readings, MaxLen)
    /\ heap = HeapOf(readings)
    /\ interval = DefaultIntervalSeconds
    /\ ranges = DefaultRanges
    /\ rows = <<>>
    /\ values = <<>>
    /\ z_threshold = DefaultZThreshold
    /\ pow_far = {}
    /\ python = OldestPython
    /\ Idle

RemoveDuplicatesOnHeap ==
    /\ pc = "idle"
    /\ op' = "remove_duplicates"
    /\ heap' = remove_duplicates_on(heap)
    /\ result' = Objects(heap', heap'.result)
    /\ pc' = "done"
    /\ UNCHANGED <<pow_far, python, readings, interval, ranges, rows, values, z_threshold,
                   report, by_sensor, k, i, expected_ts>>

ClampOutliersOnHeap ==
    /\ pc = "idle"
    /\ op' = "clamp_outliers"
    /\ heap' = clamp_outliers_on(heap, ranges)
    /\ result' = Objects(heap', heap'.result)
    /\ pc' = "done"
    /\ UNCHANGED <<pow_far, python, readings, interval, ranges, rows, values, z_threshold,
                   report, by_sensor, k, i, expected_ts>>

\* a call with a positive interval_seconds
FillMissingTimestampsOnHeap ==
    /\ pc = "idle"
    /\ \E step \in Intervals :
          /\ interval' = step
          /\ heap' = fill_missing_timestamps_on(heap, step)
    /\ result' = Objects(heap', heap'.result)
    /\ op' = "fill_missing_timestamps"
    /\ pc' = "done"
    /\ UNCHANGED <<pow_far, python, readings, ranges, rows, values, z_threshold,
                   report, by_sensor, k, i, expected_ts>>

NextHeap == RemoveDuplicatesOnHeap \/ ClampOutliersOnHeap \/ FillMissingTimestampsOnHeap

SpecHeap == InitHeap /\ [][NextHeap]_vars

----------------------------------------------------------------------------
(* SpecClamp: one call of clamp_outliers, on values below, on, inside and  *)
(* above the bounds and on NaN, with the default and with custom ranges    *)

ClampSamples ==
    { <<Num(25), Num(500), Num(50)>>,
      <<Num(200), Num(-50), Num(150)>>,
      <<Num(-40), Num(1000), Num(0)>>,
      <<Num(150), Num(0), Num(100)>>,
      <<Num(-41), Num(1000), NaN>>,
      <<NaN, NaN, Num(30)>> }

ClampReadings == { SensorReading(0, <<66>>, s[1], s[2], s[3]) : s \in ClampSamples }

\* the default ranges, ranges with lower = upper, ranges with lower > upper
RangeChoices ==
    { DefaultRanges,
      << <<Num(0), Num(0)>>, <<Num(400), Num(600)>>, <<Num(30), Num(30)>> >>,
      << <<Num(100), Num(0)>>, <<Num(0), Num(1000)>>, <<Num(60), Num(40)>> >> }

InitClamp ==
    /\ readings \in SeqsUpTo(ClampReadings, MaxClampLen)
    /\ ranges \in RangeChoices
    /\ interval = DefaultIntervalSeconds
    /\ rows = <<>>
    /\ values = <<>>
    /\ z_threshold = DefaultZThreshold
    /\ pow_far = {}
    /\ python = OldestPython
    /\ heap = NoHeap
    /\ Idle

NextClamp == ClampOutliers

SpecClamp == InitClamp /\ [][NextClamp]_vars

----------------------------------------------------------------------------
(* SpecRows: one call of validate_rows on rows that parse and validate,    *)
(* that fail to parse, and that parse but fail validation                  *)

ValidRow ==
    [timestamp |-> "2024-01-15T10:30:00", sensor_id |-> "TI-A1B2-C3D4",
     temperature |-> "25.0", pressure |-> "500.0", humidity |-> "50.0"]

RowSamples ==
    { ValidRow,
      [ValidRow EXCEPT !.temperature = "bad"],
      [ValidRow EXCEPT !.timestamp = "not-a-date"],
      [c \in {"timestamp", "sensor_id", "temperature", "pressure"} |-> ValidRow[c]],
      [ValidRow EXCEPT !.sensor_id = "BAD"],
      [ValidRow EXCEPT !.temperature = "200.0", !.humidity = "nan"] }

InitRows ==
    /\ rows \in SeqsUpTo(RowSamples, MaxRows)
    /\ readings = <<>>
    /\ interval = DefaultIntervalSeconds
    /\ ranges = DefaultRanges
    /\ values = <<>>
    /\ z_threshold = DefaultZThreshold
    /\ pow_far = {}
    /\ python = OldestPython
    /\ heap = NoHeap
    /\ Idle

ValidateRows ==
    /\ pc = "idle"
    /\ op' = "validate_rows"
    /\ report' = validate_rows(rows)
    /\ pc' = "done"
    /\ UNCHANGED <<pow_far, python, heap, readings, interval, ranges, rows, values, z_threshold, result, by_sensor, k, i, expected_ts>>

NextRows == ValidateRows

SpecRows == InitRows /\ [][NextRows]_vars

----------------------------------------------------------------------------
(* SpecValidate: one call of validate_batch on a list of readings or of    *)
(* validate_rows on a list of rows, valid and invalid ones in any order    *)

\* a valid reading, a bad sensor_id, a temperature and a humidity out of
\* range, a pressure that is NaN
BatchReadings ==
    { SensorReading(0, str("TI-A1B2-C3D4"), Num(25), Num(500), Num(50)),
      SensorReading(0, str("BAD"), Num(25), Num(500), Num(50)),
      SensorReading(0, str("TI-A1B2-C3D4"), Num(200), Num(500), Num(-1)),
      SensorReading(0, str("TI-A1B2-C3D4"), Num(25), NaN, Num(50)) }

InitValidate ==
    /\ \/ readings \in SeqsUpTo(BatchReadings, MaxBatch) /\ rows = <<>>
       \/ readings = <<>> /\ rows \in SeqsUpTo(RowSamples, MaxRows)
    /\ interval = DefaultIntervalSeconds
    /\ ranges = DefaultRanges
    /\ values = <<>>
    /\ z_threshold = DefaultZThreshold
    /\ pow_far = {}
    /\ python = OldestPython
    /\ heap = NoHeap
    /\ Idle

ValidateBatch ==
    /\ pc = "idle"
    /\ op' = "validate_batch"
    /\ report' = validate_batch(readings)
    /\ pc' = "done"
    /\ UNCHANGED <<pow_far, python, heap, readings, interval, ranges, rows, values, z_threshold, result, by_sensor, k, i, expected_ts>>

NextValidate == ValidateBatch \/ ValidateRows

SpecValidate == InitValidate /\ [][NextValidate]_vars

----------------------------------------------------------------------------
(* SpecFill: fill_missing_timestamps statement by statement, for positive, *)
(* zero and negative interval_seconds.  The function has no check of its   *)
(* interval argument and no raise statement: the call is in "walk" (the    *)
(* for loops), in "gap" (the while loop) or "done" (returned).  A while     *)
(* loop that does not advance appends placeholders until the memory is     *)
(* exhausted: the call ends in "MemoryError".                              *)

\* mutant: the loop body forgets expected_ts += interval
NextExpectedStuck(ts, step) == ts

\* expected_ts = current_ts + interval, and expected_ts += interval
NextExpected(ts, step) == ts + step

\* the number of readings the memory holds, for a loop that does not advance
\* (interval_seconds <= 0); an advancing loop stays below it
MaxResult == MaxStepLen + MaxTs + 1

\* expected_ts += interval_seconds moves expected_ts towards next_ts
Advances(ts, step) == NextExpected(ts, step) > ts

StepIntervals == {-1, 0} \cup Intervals

StepReadings ==
    { SensorReading(ts, sid, Num(25), Num(500), Num(50)) :
        ts \in Timestamps, sid \in SensorIds }

\* before the call: no arguments yet
InitFill ==
    /\ readings = <<>>
    /\ interval = DefaultIntervalSeconds
    /\ ranges = DefaultRanges
    /\ rows = <<>>
    /\ values = <<>>
    /\ z_threshold = DefaultZThreshold
    /\ pow_far = {}
    /\ python = OldestPython
    /\ heap = NoHeap
    /\ Idle

\* the call with its arguments; if not readings: return []; else the grouping,
\* the per-sensor sort and result = []
FillCall ==
    /\ pc = "idle"
    /\ \E rs \in SeqsUpTo(StepReadings, MaxStepLen), step \in StepIntervals :
          /\ readings' = rs
          /\ interval' = step
          /\ IF rs = <<>>
             THEN /\ pc' = "done"
                  /\ UNCHANGED <<by_sensor, k, i>>
             ELSE /\ pc' = "walk"
                  /\ by_sensor' = GroupBySensor(rs)
                  /\ k' = 1
                  /\ i' = 1
    /\ op' = "fill_missing_timestamps"
    /\ result' = <<>>
    /\ UNCHANGED <<pow_far, python, heap, ranges, rows, values, z_threshold, report, expected_ts>>

\* result.append(reading); with a next reading, expected_ts = current_ts + interval
FillAppend ==
    /\ pc = "walk" /\ k <= Len(by_sensor) /\ i <= Len(by_sensor[k])
    /\ result' = Append(result, by_sensor[k][i])
    /\ IF i < Len(by_sensor[k])
       THEN /\ expected_ts' = NextExpected(by_sensor[k][i].timestamp, interval)
            /\ pc' = "gap"
            /\ UNCHANGED i
       ELSE /\ i' = i + 1
            /\ UNCHANGED <<expected_ts, pc>>
    /\ UNCHANGED <<pow_far, python, heap, readings, interval, ranges, rows, values, z_threshold, op, report, by_sensor, k>>

\* while expected_ts < next_ts: append a placeholder, expected_ts += interval
FillPlaceholder ==
    /\ pc = "gap"
    /\ expected_ts < by_sensor[k][i + 1].timestamp
    /\ Advances(expected_ts, interval) \/ Len(result) < MaxResult
    /\ result' = Append(result, Placeholder(expected_ts, by_sensor[k][i].sensor_id))
    /\ expected_ts' = NextExpected(expected_ts, interval)
    /\ UNCHANGED <<pow_far, python, heap, readings, interval, ranges, rows, values, z_threshold, op, pc, report, by_sensor, k, i>>

\* the loop does not advance and the memory is full: result.append or the
\* construction of the placeholder raises MemoryError
FillMemoryError ==
    /\ pc = "gap"
    /\ expected_ts < by_sensor[k][i + 1].timestamp
    /\ ~Advances(expected_ts, interval) /\ Len(result) >= MaxResult
    /\ pc' = "MemoryError"
    /\ UNCHANGED <<pow_far, python, heap, readings, interval, ranges, rows, values, z_threshold, op, result, report,
                   by_sensor, k, i, expected_ts>>

\* the while condition is false: on to the sensor's next reading
FillGapDone ==
    /\ pc = "gap"
    /\ ~(expected_ts < by_sensor[k][i + 1].timestamp)
    /\ i' = i + 1
    /\ pc' = "walk"
    /\ UNCHANGED <<pow_far, python, heap, readings, interval, ranges, rows, values, z_threshold, op, result, report, by_sensor, k,
                   expected_ts>>

\* the inner for loop is exhausted: on to the next item of by_sensor
FillNextSensor ==
    /\ pc = "walk" /\ k <= Len(by_sensor) /\ i > Len(by_sensor[k])
    /\ k' = k + 1
    /\ i' = 1
    /\ UNCHANGED <<pow_far, python, heap, readings, interval, ranges, rows, values, z_threshold, op, pc, result, report, by_sensor,
                   expected_ts>>

\* the outer for loop is exhausted: result.sort(...); return result
FillReturn ==
    /\ pc = "walk" /\ k > Len(by_sensor)
    /\ result' = SortByKey(result)
    /\ pc' = "done"
    /\ UNCHANGED <<pow_far, python, heap, readings, interval, ranges, rows, values, z_threshold, op, report, by_sensor, k, i,
                   expected_ts>>

NextFill ==
    \/ FillCall
    \/ FillAppend
    \/ FillPlaceholder
    \/ FillMemoryError
    \/ FillGapDone
    \/ FillNextSensor
    \/ FillReturn

\* a call that was made runs on: the interpreter executes the next statement
SpecFill == InitFill /\ [][NextFill]_vars /\ WF_vars(NextFill)

----------------------------------------------------------------------------
(* SpecCompute: one call of _compute_stats on a sample of non-NaN values:  *)
(* values with and without an exact binary representation, in any order,   *)
(* repeated or not, and the sample of the known standard deviation         *)

\* 0.1
Tenth == DblDiv[DblOfInt[1], DblOfInt[10]]

StatValues == { Tenth, DblOfInt[2], DblOfInt[5] }

\* [2, 4, 4, 4, 5, 5, 7, 9]
KnownSample ==
    << DblOfInt[2], DblOfInt[4], DblOfInt[4], DblOfInt[4],
       DblOfInt[5], DblOfInt[5], DblOfInt[7], DblOfInt[9] >>

InitCompute ==
    /\ values \in SeqsUpTo(StatValues, MaxSample) \cup {KnownSample}
    /\ readings = <<>>
    /\ interval = DefaultIntervalSeconds
    /\ ranges = DefaultRanges
    /\ rows = <<>>
    /\ z_threshold = DefaultZThreshold
    /\ python \in Pythons
    /\ heap = NoHeap
    /\ pow_far \in SUBSET Deviations(values)
    /\ Idle

ComputeStats ==
    /\ pc = "idle"
    /\ op' = "_compute_stats"
    /\ result' = compute_stats(values)
    /\ pc' = "done"
    /\ UNCHANGED <<pow_far, python, heap, readings, interval, ranges, rows, values, z_threshold, report,
                   by_sensor, k, i, expected_ts>>

NextCompute == ComputeStats

SpecCompute == InitCompute /\ [][NextCompute]_vars

----------------------------------------------------------------------------
(* SpecStats: one call of calculate_statistics or of detect_anomalies on   *)
(* readings of two sensors whose fields are equal, different or NaN        *)

\* temperature, pressure, humidity of the readings of sensor "B"
StatsSamples ==
    { <<Tenth, DblOfInt[5], NaN>>,
      <<Tenth, DblOfInt[2], DblOfInt[5]>>,
      <<NaN, NaN, NaN>> }

StatsReadings ==
    { SensorReading(0, <<66>>, s[1], s[2], s[3]) : s \in StatsSamples }
    \cup { SensorReading(0, <<65, 66>>, DblOfInt[5], NaN, DblOfInt[2]) }

\* 2.0 (the default), 1.0 and 0.5
ZThresholds == { DefaultZThreshold, DblOfInt[1], DblDiv[DblOfInt[1], DblOfInt[2]] }

InitStats ==
    /\ readings \in SeqsUpTo(StatsReadings, MaxStatsLen)
    /\ interval = DefaultIntervalSeconds
    /\ ranges = DefaultRanges
    /\ rows = <<>>
    /\ values = <<>>
    /\ z_threshold = DefaultZThreshold
    /\ python \in PythonsBySum
    /\ heap = NoHeap
    /\ pow_far \in SUBSET PowArguments(readings)
    /\ Idle

CalculateStatistics ==
    /\ pc = "idle"
    /\ op' = "calculate_statistics"
    /\ result' = calculate_statistics(readings)
    /\ pc' = "done"
    /\ UNCHANGED <<pow_far, python, heap, readings, interval, ranges, rows, values, z_threshold, report,
                   by_sensor, k, i, expected_ts>>

\* detect_anomalies(readings, threshold): the statistics do not depend on the
\* threshold
DetectAnomalies ==
    /\ pc = "idle"
    /\ \E stats \in {calculate_statistics(readings)} : \E threshold \in ZThresholds :
        /\ z_threshold' = threshold
        /\ result' = AnomaliesOf[readings, stats, threshold, Checks(readings)]
    /\ op' = "detect_anomalies"
    /\ pc' = "done"
    /\ UNCHANGED <<pow_far, python, heap, readings, interval, ranges, rows, values, report,
                   by_sensor, k, i, expected_ts>>

NextStats == CalculateStatistics \/ DetectAnomalies

SpecStats == InitStats /\ [][NextStats]_vars

----------------------------------------------------------------------------
(* SpecPipeline: one call of calculate_statistics, detect_anomalies or     *)
(* fill_missing_timestamps on readings of two sensors that are not in the  *)
(* order of their timestamps, with gaps, repeated keys and readings        *)
(* without values                                                          *)

PipelineReadings ==
    { SensorReading(2, <<66>>, Tenth, DblOfInt[5], NaN),
      SensorReading(0, <<66>>, Tenth, DblOfInt[2], NaN),
      SensorReading(1, <<65, 66>>, DblOfInt[5], NaN, DblOfInt[2]),
      SensorReading(4, <<65, 66>>, NaN, NaN, NaN) }

InitPipeline ==
    /\ readings \in SeqsUpTo(PipelineReadings, MaxPipelineLen)
    /\ interval = DefaultIntervalSeconds
    /\ ranges = DefaultRanges
    /\ rows = <<>>
    /\ values = <<>>
    /\ z_threshold = DefaultZThreshold
    /\ python \in PythonsBySum
    /\ heap = NoHeap
    /\ pow_far \in SUBSET PowArguments(readings)
    /\ Idle

NextPipeline == CalculateStatistics \/ DetectAnomalies \/ FillMissingTimestamps

SpecPipeline == InitPipeline /\ [][NextPipeline]_vars

----------------------------------------------------------------------------
(* SpecRefill: one call of fill_missing_timestamps on readings of two      *)
(* sensors that are not in the order of their timestamps and whose values  *)
(* have sums and squares that are rounded                                  *)

RefillReadings ==
    { SensorReading(2, <<66>>, Tenth, DblOfInt[5], NaN),
      SensorReading(0, <<66>>, DblOfInt[5], DblOfInt[2], NaN),
      SensorReading(1, <<65, 66>>, DblOfInt[5], NaN, DblOfInt[2]) }

\* the squares taken by calculate_statistics of the readings and of the
\* filled list, which holds them in the order of their keys
InitRefill ==
    /\ readings \in SeqsUpTo(RefillReadings, MaxPipelineLen)
    /\ interval = DefaultIntervalSeconds
    /\ ranges = DefaultRanges
    /\ rows = <<>>
    /\ values = <<>>
    /\ z_threshold = DefaultZThreshold
    /\ python \in PythonsBySum
    /\ heap = NoHeap
    /\ pow_far \in SUBSET (PowArguments(readings) \cup PowArguments(SortByKey(readings)))
    /\ Idle

NextRefill == FillMissingTimestamps

SpecRefill == InitRefill /\ [][NextRefill]_vars

----------------------------------------------------------------------------
(* SpecFew: one call of detect_anomalies on up to five readings of one     *)
(* sensor, among them a single value away from the others                  *)

\* temperature, pressure, humidity of the readings of sensor "B"
FewSamples ==
    { <<DblOfInt[2], NaN, NaN>>,
      <<DblOfInt[5], NaN, NaN>>,
      <<NaN, DblOfInt[5], NaN>> }

FewReadings == { SensorReading(0, <<66>>, s[1], s[2], s[3]) : s \in FewSamples }

InitFew ==
    /\ readings \in SeqsUpTo(FewReadings, MaxFewLen)
    /\ interval = DefaultIntervalSeconds
    /\ ranges = DefaultRanges
    /\ rows = <<>>
    /\ values = <<>>
    /\ z_threshold = DefaultZThreshold
    /\ python \in PythonsBySum
    /\ heap = NoHeap
    /\ pow_far \in SUBSET PowArguments(readings)
    /\ Idle

NextFew == DetectAnomalies

SpecFew == InitFew /\ [][NextFew]_vars

----------------------------------------------------------------------------
(* SpecReport: one call of generate_report on readings of two sensors at   *)
(* several instants, in any order, with values, without a value of one     *)
(* field and without any value                                             *)

\* the seconds of the timestamps of the readings
ReportTimestamps == { 7, 59 }

\* 0.125: with 5 it has means and deviations of more than two decimals
Eighth == DblDiv[DblOfInt[1], DblOfInt[8]]

ReportReadings ==
    { SensorReading(ts, <<66>>, Eighth, DblOfInt[5], NaN) : ts \in ReportTimestamps }
    \cup { SensorReading(59, <<66>>, DblOfInt[5], DblOfInt[2], NaN),
           SensorReading(7, <<65, 66>>, NaN, NaN, NaN) }

\* the default threshold and 0.5
ReportThresholds == { DefaultZThreshold, DblDiv[DblOfInt[1], DblOfInt[2]] }

\* the seconds of the instants at which the report is generated
Nows == { 30, 59 }

InitReport ==
    /\ readings \in SeqsUpTo(ReportReadings, MaxReportLen)
    /\ interval = DefaultIntervalSeconds
    /\ ranges = DefaultRanges
    /\ rows = <<>>
    /\ values = <<>>
    /\ z_threshold = DefaultZThreshold
    /\ python \in PythonsBySum
    /\ heap = NoHeap
    /\ pow_far \in SUBSET PowArguments(readings)
    /\ Idle

GenerateReport ==
    /\ pc = "idle"
    /\ \E threshold \in ReportThresholds : \E now \in Nows :
        /\ z_threshold' = threshold
        /\ report' = generate_report(readings, threshold, now)
    /\ op' = "generate_report"
    /\ pc' = "done"
    /\ UNCHANGED <<pow_far, python, heap, readings, interval, ranges, rows, values, result,
                   by_sensor, k, i, expected_ts>>

NextReport == GenerateReport

SpecReport == InitReport /\ [][NextReport]_vars

----------------------------------------------------------------------------
(* Vocabulary of the properties *)

BagOfSeq(s) ==
    [x \in {s[n] : n \in DOMAIN s} |-> Cardinality({n \in DOMAIN s : s[n] = x})]

FillDone == op = "fill_missing_timestamps" /\ pc = "done"
DedupDone == op = "remove_duplicates" /\ pc = "done"
ClampDone == op = "clamp_outliers" /\ pc = "done"

SensorsOf(rs) == {rs[n].sensor_id : n \in DOMAIN rs}
TsOfSensor(rs, sid) == {rs[n].timestamp : n \in {m \in DOMAIN rs : rs[m].sensor_id = sid}}

\* a and b are timestamps of readings adjacent in the sensor's sorted sequence
AdjacentTs(T, a, b) == a \in T /\ b \in T /\ a < b /\ ~\E c \in T : a < c /\ c < b

\* the timestamps current + j*step, j >= 1, strictly below next
GapTs(a, b, step) == {t \in (a + 1)..(b - 1) : \E j \in 1..(b - a) : t = a + j * step}

\* the placeholder timestamps of one sensor, given the set T of its timestamps
SensorGapTs(T, step) ==
    UNION { GapTs(p[1], p[2], step) : p \in {q \in T \X T : AdjacentTs(T, q[1], q[2])} }

ExpectedPlaceholders(rs, step) ==
    UNION { { Placeholder(t, sid) : t \in SensorGapTs(TsOfSensor(rs, sid), step) } :
            sid \in SensorsOf(rs) }

\* what the call added to its input
Added == BagOfSeq(result) (-) BagOfSeq(readings)

IsAllNaN(r) == isnan(r.temperature) /\ isnan(r.pressure) /\ isnan(r.humidity)

SortedByKey(s) ==
    \A n \in 1..(Len(s) - 1) :
        \/ s[n].timestamp < s[n + 1].timestamp
        \/ /\ s[n].timestamp = s[n + 1].timestamp
           /\ StrLe(s[n].sensor_id, s[n + 1].sensor_id)

\* no two readings adjacent in a sensor's timestamp order are more than step apart
GapFree(rs, step) ==
    \A sid \in SensorsOf(rs) : \A a, b \in TsOfSensor(rs, sid) :
        AdjacentTs(TsOfSensor(rs, sid), a, b) => b - a <= step

----------------------------------------------------------------------------
(* C5: for each sensor and each pair (current, next) adjacent in the       *)
(* sensor's timestamp-sorted sequence, fill_missing_timestamps emits a     *)
(* placeholder exactly at every current.timestamp + j*interval, j >= 1,    *)
(* strictly below next.timestamp, and nowhere else; a placeholder has the  *)
(* sensor's id and NaN temperature, pressure and humidity; a gap of at     *)
(* most one interval gets none.                                            *)
C5_PlaceholdersExactlyInGaps ==
    FillDone =>
        /\ Added = SetToBag(ExpectedPlaceholders(readings, interval))
        /\ GapFree(readings, interval) => Len(result) = Len(readings)

\* a gap of two intervals was filled with exactly one placeholder, at the midpoint
C5_Witness ==
    /\ FillDone
    /\ \E sid \in SensorsOf(readings) : \E a \in TsOfSensor(readings, sid) :
          /\ AdjacentTs(TsOfSensor(readings, sid), a, a + 2 * interval)
          /\ Cardinality({n \in DOMAIN result :
                            /\ result[n].sensor_id = sid
                            /\ a < result[n].timestamp
                            /\ result[n].timestamp < a + 2 * interval}) = 1
          /\ \E n \in DOMAIN result : result[n] = Placeholder(a + interval, sid)

(* C6: the output of fill_missing_timestamps is sorted ascending by        *)
(* (timestamp, sensor_id), sensor_id compared lexically, whatever the      *)
(* order of the input and the number of sensors.                           *)
C6_OutputSortedByKey == FillDone => SortedByKey(result)

\* an unsorted input with two sensors sharing a timestamp was filled
C6_Witness ==
    /\ FillDone
    /\ ~SortedByKey(readings)
    /\ Cardinality(SensorsOf(readings)) = 2
    /\ \E n \in 1..(Len(result) - 1) :
          /\ result[n].timestamp = result[n + 1].timestamp
          /\ result[n].sensor_id # result[n + 1].sensor_id
    /\ Len(result) > Len(readings)

(* C7: on an input already sorted by (timestamp, sensor_id) with no gap    *)
(* larger than the interval, fill_missing_timestamps returns the input     *)
(* unchanged in content and order, also when several readings share a key. *)
C7_SortedGapFreeUnchanged ==
    (FillDone /\ SortedByKey(readings) /\ GapFree(readings, interval))
        => result = readings

\* a sorted gap-free input with two different readings of one key was filled
C7_Witness ==
    /\ FillDone /\ SortedByKey(readings) /\ GapFree(readings, interval)
    /\ Cardinality(SensorsOf(readings)) = 2
    /\ \E n \in 1..(Len(readings) - 1) :
          /\ Key(readings[n]) = Key(readings[n + 1])
          /\ readings[n] # readings[n + 1]

(* C8: fill_missing_timestamps keeps every input reading with its five     *)
(* fields unchanged, every other output element is a placeholder, so the   *)
(* output length is the input length plus the number of placeholders;      *)
(* empty input gives empty output and a sensor with a single reading       *)
(* contributes exactly that reading.                                       *)
C8_InputReadingsKept ==
    FillDone =>
        /\ BagOfSeq(readings) \sqsubseteq BagOfSeq(result)
        /\ \A x \in BagToSet(Added) : IsAllNaN(x) /\ x.sensor_id \in SensorsOf(readings)
        /\ Len(result) = Len(readings) + BagCardinality(Added)
        /\ readings = <<>> => result = <<>>
        /\ \A sid \in SensorsOf(readings) :
              Len(OfSensor(readings, sid)) = 1
                  => OfSensor(result, sid) = OfSensor(readings, sid)

\* placeholders were added for one sensor while another had a single reading
C8_Witness ==
    /\ FillDone
    /\ BagCardinality(Added) > 0
    /\ \E sid \in SensorsOf(readings) : Len(OfSensor(readings, sid)) = 1
    /\ \E n \in DOMAIN readings : ~IsAllNaN(readings[n])

(* C9: remove_duplicates returns the subsequence of the input made of the  *)
(* first reading of each distinct (timestamp, sensor_id) key, in input     *)
(* order; a later reading with a seen key is dropped even when its values  *)
(* differ, so no two output readings share a key.                          *)
FirstOfKey(rs) == {n \in DOMAIN rs : \A m \in 1..(n - 1) : Key(rs[m]) # Key(rs[n])}

\* the subsequence of rs at the indices of I, in order
RECURSIVE Pick(_, _, _)
Pick(rs, I, n) ==
    IF n > Len(rs) THEN <<>>
    ELSE (IF n \in I THEN <<rs[n]>> ELSE <<>>) \o Pick(rs, I, n + 1)

C9_FirstOccurrenceKept ==
    DedupDone =>
        /\ result = Pick(readings, FirstOfKey(readings), 1)
        /\ \A n, m \in DOMAIN result : n # m => Key(result[n]) # Key(result[m])

\* a later reading with a seen key and different values was dropped
C9_Witness ==
    /\ DedupDone
    /\ Len(result) = 2 /\ Len(readings) = 3
    /\ \E n, m \in DOMAIN readings :
          n < m /\ Key(readings[n]) = Key(readings[m]) /\ readings[n] # readings[m]

----------------------------------------------------------------------------
(* clamp_outliers *)

(* C2: clamp_outliers leaves a NaN field NaN: the same field of the output *)
(* reading is NaN and is neither the lower nor the upper bound.            *)
C2_NaNStaysNaN ==
    ClampDone =>
        \A n \in DOMAIN readings : \A f \in DOMAIN FieldNames :
            isnan(Field(readings[n], f)) =>
                /\ n \in DOMAIN result
                /\ isnan(Field(result[n], f))
                /\ Field(result[n], f) # ranges[f][1]
                /\ Field(result[n], f) # ranges[f][2]

(* C10: clamp_outliers returns a list of the input's length whose n-th     *)
(* reading has the n-th input's timestamp and sensor_id and, for a field   *)
(* with non-NaN value v and range lo <= hi, the value v brought into       *)
(* [lo, hi]: lo below lo, hi above hi, v itself inside or on a bound;      *)
(* every output field of such a range lies in [lo, hi].                    *)
C10_ClampedIntoRange ==
    ClampDone =>
        /\ Len(result) = Len(readings)
        /\ \A n \in DOMAIN readings :
              /\ result[n].timestamp = readings[n].timestamp
              /\ result[n].sensor_id = readings[n].sensor_id
              /\ \A f \in DOMAIN FieldNames :
                    LET lo == ranges[f][1]
                        hi == ranges[f][2]
                        v == Field(readings[n], f)
                        w == Field(result[n], f)
                    IN  FLe(lo, hi) =>
                            /\ ~isnan(v) =>
                                  w = IF v.val < lo.val THEN lo
                                      ELSE IF v.val > hi.val THEN hi ELSE v
                            /\ FLe(lo, w) /\ FLe(w, hi)

\* values below, on and above the bounds of one range were clamped in one call
C10_Witness ==
    /\ ClampDone
    /\ \E f \in DOMAIN FieldNames :
          /\ FLt(ranges[f][1], ranges[f][2])
          /\ \E n \in DOMAIN readings : FLt(Field(readings[n], f), ranges[f][1])
          /\ \E n \in DOMAIN readings : FLt(ranges[f][2], Field(readings[n], f))
    /\ \E f \in DOMAIN FieldNames : \E n \in DOMAIN readings :
          Field(readings[n], f) \in {ranges[f][1], ranges[f][2]}

(* C11: clamping is idempotent: clamp_outliers applied, with the same      *)
(* ranges, to the list clamp_outliers returned gives that list again,      *)
(* reading by reading and field by field.                                  *)
C11_ClampIdempotent ==
    ClampDone =>
        LET again == clamp_outliers(result, ranges)
        IN  /\ Len(again) = Len(result)
            /\ \A n \in DOMAIN result :
                  /\ again[n].timestamp = result[n].timestamp
                  /\ again[n].sensor_id = result[n].sensor_id
                  /\ \A f \in DOMAIN FieldNames :
                        Field(again[n], f) = Field(result[n], f)

\* the first call changed a value above a bound, a value below one and a NaN
C11_Witness ==
    /\ ClampDone
    /\ \E n \in DOMAIN readings : \E f, g, h \in DOMAIN FieldNames :
          /\ FLt(ranges[f][2], Field(readings[n], f))
          /\ FLt(Field(readings[n], g), ranges[g][1])
          /\ Field(result[n], f) # Field(readings[n], f)
          /\ Field(result[n], g) # Field(readings[n], g)
    /\ \E n \in DOMAIN readings : \E f \in DOMAIN FieldNames :
          isnan(Field(readings[n], f)) /\ ~isnan(Field(result[n], f))

----------------------------------------------------------------------------
(* the cleaners and their argument *)

\* the list that a call on the heap returns holds the readings that the
\* cleaner returns for the caller's readings
HeapAgrees ==
    /\ DedupDone => result = remove_duplicates(readings)
    /\ ClampDone => result = clamp_outliers(readings, ranges)
    /\ FillDone => result = fill_missing_timestamps(readings, interval)

\* the list of the caller, as the references it holds
CallersList == heap.lists[InputList]

(* C12: no cleaner changes its input: when remove_duplicates,              *)
(* clamp_outliers or fill_missing_timestamps has returned, the caller's    *)
(* list holds the objects it held when the call started, as many and in    *)
(* the same order, and each of them has the five fields it had.            *)
C12_InputUnchanged ==
    pc = "done" =>
        /\ Len(CallersList) = Len(readings)
        /\ \A n \in DOMAIN readings :
              /\ CallersList[n] = n
              /\ heap.objs[n].timestamp = readings[n].timestamp
              /\ heap.objs[n].sensor_id = readings[n].sensor_id
              /\ \A f \in DOMAIN FieldNames : Field(heap.objs[n], f) = Field(readings[n], f)

\* fill_missing_timestamps has sorted the list of a sensor, which put an object
\* in front of one that stands in front of it in the caller's list, and has
\* returned a new list that holds a new placeholder object and the caller's
\* objects in another order
C12_Witness ==
    /\ FillDone
    /\ heap.result # InputList
    /\ \E m \in DOMAIN heap.by_sensor :
          \E a, b \in DOMAIN heap.lists[heap.by_sensor[m][2]] :
              /\ a < b
              /\ heap.lists[heap.by_sensor[m][2]][a] > heap.lists[heap.by_sensor[m][2]][b]
    /\ \E p \in DOMAIN heap.lists[heap.result] :
          heap.lists[heap.result][p] > Len(readings)
    /\ \E n \in DOMAIN readings : heap.lists[heap.result][n] # CallersList[n]

----------------------------------------------------------------------------
(* the analyzers *)

ComputeDone == op = "_compute_stats" /\ pc = "done"
StatsDone == op = "calculate_statistics" /\ pc = "done"
AnomaliesDone == op = "detect_anomalies" /\ pc = "done"

\* the non-NaN values of field f of the sensor of the n-th reading
SampleOf(n, f) == FieldValues(readings, readings[n].sensor_id, f)

\* the pair (n-th reading, field f) is among the returned anomalies
IsFlagged(n, f) ==
    \E a \in DOMAIN result : result[a].reading = n /\ result[a].field = FieldNames[f]

\* abs(value - mean) / std, for the statistics st of the sample
ZOf(value, st) == DblDiv[DblAbs[DblSub[value, st.mean]], st.std]

\* the pair is flagged exactly when the value is not NaN, the std of the
\* sample is not zero and |value - mean| / std is greater than the threshold
FlaggedIffBeyondThreshold(n, f, st) ==
    IsFlagged(n, f) <=>
        /\ ~isnan(Field(readings[n], f))
        /\ st.std # DblZero
        /\ DblLt[z_threshold, ZOf(Field(readings[n], f), st)]

\* a pair whose z-score is the threshold is not flagged
ThresholdNotFlagged(n, f, st) ==
    ( /\ ~isnan(Field(readings[n], f))
      /\ st.std # DblZero
      /\ ZOf(Field(readings[n], f), st) = z_threshold )
    => ~IsFlagged(n, f)

\* all the values of the sample are the same one
Uniform(s) == \A a \in DOMAIN s : \A b \in DOMAIN s : s[a] = s[b]

\* no pair of a sensor and field with identical values is flagged
UniformNotFlagged(n, f) == Uniform(SampleOf(n, f)) => ~IsFlagged(n, f)

(* C13: detect_anomalies flags the pair (reading, field) if and only if    *)
(* the value is not NaN, the std of the field over the non-NaN values of   *)
(* the reading's sensor is not zero and |value - mean| / std is greater    *)
(* than z_threshold; a z-score equal to the threshold is not flagged; a    *)
(* sensor whose values for a field are all identical yields no anomaly for *)
(* that field.                                                             *)
C13_FlaggedIffBeyondThreshold ==
    AnomaliesDone =>
        \A n \in DOMAIN readings : \A f \in DOMAIN FieldNames :
            \A st \in {compute_stats(SampleOf(n, f))} :
                /\ FlaggedIffBeyondThreshold(n, f, st)
                /\ ThresholdNotFlagged(n, f, st)
                /\ UniformNotFlagged(n, f)

\* the cases of C13 that hold: all but the sensors of identical values
C13_ExceptUniform ==
    AnomaliesDone =>
        \A n \in DOMAIN readings : \A f \in DOMAIN FieldNames :
            \A st \in {compute_stats(SampleOf(n, f))} :
                /\ FlaggedIffBeyondThreshold(n, f, st)
                /\ ThresholdNotFlagged(n, f, st)

\* a pair with the z-score 1.0 at the threshold 1.0, which is not flagged
C13_AtThreshold ==
    /\ AnomaliesDone
    /\ \E n \in DOMAIN readings : \E f \in DOMAIN FieldNames :
        /\ ~isnan(Field(readings[n], f))
        /\ compute_stats(SampleOf(n, f)).std # DblZero
        /\ ZOf(Field(readings[n], f), compute_stats(SampleOf(n, f))) = z_threshold
        /\ ~IsFlagged(n, f)

\* identical values whose computed std is not zero and which are flagged
C13_UniformFlagged ==
    /\ AnomaliesDone
    /\ \E n \in DOMAIN readings : \E f \in DOMAIN FieldNames :
        /\ Uniform(SampleOf(n, f))
        /\ compute_stats(SampleOf(n, f)).std # DblZero
        /\ IsFlagged(n, f)

\* the place of the field of the name in the order of the checks
FieldIndex(name) == CHOOSE f \in DOMAIN FieldNames : FieldNames[f] = name

(* C14: the list returned by detect_anomalies is ordered by the position   *)
(* of the reading in the input and, for one reading, in the order          *)
(* temperature, pressure, humidity; each Anomaly refers to a reading of    *)
(* the input list and carries that reading's value of the named field.     *)
C14_AnomaliesInInputOrder ==
    AnomaliesDone =>
        /\ \A a \in DOMAIN result : \A b \in DOMAIN result :
            a < b =>
                \/ result[a].reading < result[b].reading
                \/ /\ result[a].reading = result[b].reading
                   /\ FieldIndex(result[a].field) < FieldIndex(result[b].field)
        /\ \A a \in DOMAIN result :
            /\ result[a].reading \in DOMAIN readings
            /\ result[a].field \in {FieldNames[f] : f \in DOMAIN FieldNames}
            /\ result[a].value = Field(readings[result[a].reading], FieldIndex(result[a].field))

\* two readings are flagged, the first one in two fields, and an equal
\* reading stands at another position of the input
C14_Witness ==
    /\ AnomaliesDone
    /\ \E a \in DOMAIN result : \E b \in DOMAIN result : \E c \in DOMAIN result :
        /\ a < b /\ b < c
        /\ result[a].reading = result[b].reading
        /\ result[a].field # result[b].field
        /\ result[b].reading < result[c].reading
    /\ \E a \in DOMAIN result : \E n \in DOMAIN readings :
        n # result[a].reading /\ readings[n] = readings[result[a].reading]

(* C15: the keys of the mapping returned by calculate_statistics are       *)
(* exactly the distinct sensor_ids of the input, each key once (no key for *)
(* the empty input), and the StatsResult of a key has that sensor_id; so   *)
(* every reading has a StatsResult for its sensor, also when all readings  *)
(* of the sensor are NaN in every field.                                   *)
C15_OneResultPerSensor ==
    StatsDone =>
        /\ Keys(result) = SensorsOf(readings)
        /\ \A a \in DOMAIN result : \A b \in DOMAIN result :
            result[a][1] = result[b][1] => a = b
        /\ \A a \in DOMAIN result : result[a][2].sensor_id = result[a][1]
        /\ \A n \in DOMAIN readings :
            \E a \in DOMAIN result : result[a][1] = readings[n].sensor_id
        /\ readings = <<>> => result = <<>>

\* two sensors, one of them with NaN in every field of all its readings
C15_Witness ==
    /\ StatsDone
    /\ Cardinality(SensorsOf(readings)) = 2
    /\ \E sid \in SensorsOf(readings) :
        /\ \A n \in DOMAIN readings :
            readings[n].sensor_id = sid => IsAllNaN(readings[n])
        /\ sid \in Keys(result)

\* the five statistics of a FieldStats
StatsOf(st) == <<st.mean, st.median, st.std, st.min, st.max>>

MinMaxOfSample ==
    /\ \E n \in DOMAIN values : result.min = values[n]
    /\ \E n \in DOMAIN values : result.max = values[n]
    /\ \A n \in DOMAIN values : DblLe[result.min, values[n]] /\ DblLe[values[n], result.max]

(* C17: for every non-empty sample of non-NaN values the statistics of     *)
(* _compute_stats satisfy min <= median <= max and min <= mean <= max,     *)
(* min and max being the least and the greatest value of the sample.       *)
C17_MeanMedianWithinMinMax ==
    (ComputeDone /\ values # <<>>) =>
        /\ MinMaxOfSample
        /\ DblLe[result.min, result.median] /\ DblLe[result.median, result.max]
        /\ DblLe[result.min, result.mean] /\ DblLe[result.mean, result.max]

\* the cases of C17 that hold: all but the bounds of the mean
C17_ExceptMean ==
    (ComputeDone /\ values # <<>>) =>
        /\ MinMaxOfSample
        /\ DblLe[result.min, result.median] /\ DblLe[result.median, result.max]

\* the mean of three values 0.1 is greater than their max
C17_MeanAboveMax ==
    /\ ComputeDone
    /\ values = <<Tenth, Tenth, Tenth>>
    /\ result.max = Tenth
    /\ DblLt[result.max, result.mean]

\* the p-th smallest value of the sample: fewer than p values are smaller
\* and at least p values are not greater
OrderStatistic(s, p) ==
    CHOOSE x \in {s[n] : n \in DOMAIN s} :
        /\ Cardinality({n \in DOMAIN s : DblLt[s[n], x]}) < p
        /\ p <= Cardinality({n \in DOMAIN s : DblLe[s[n], x]})

(* C18: the median of a non-empty sample of n values is the middle element *)
(* of the sorted sample when n is odd and the arithmetic mean of its two   *)
(* central elements when n is even, whatever the order of the input.       *)
C18_MedianOfSortedSample ==
    (ComputeDone /\ values # <<>>) =>
        IF Len(values) % 2 = 1
        THEN result.median = OrderStatistic(values, (Len(values) + 1) \div 2)
        ELSE result.median =
                DblDiv[DblAdd[OrderStatistic(values, Len(values) \div 2),
                              OrderStatistic(values, (Len(values) \div 2) + 1)],
                       DblOfInt[2]]

\* three different values given in an order that is not the sorted one,
\* the median not being the value in the middle of the input
C18_Witness ==
    /\ ComputeDone
    /\ Len(values) = 3
    /\ DblLt[values[2], values[3]] /\ DblLt[values[3], values[1]]
    /\ result.median = values[3]

\* an even sample in descending order with a median between its values
C18_EvenSample ==
    /\ ComputeDone
    /\ Len(values) = 2
    /\ DblLt[values[2], values[1]]
    /\ DblLt[values[2], result.median] /\ DblLt[result.median, values[1]]

\* the sum of the squared deviations of the sample from m, squared by the
\* pow of the build
SquaredDeviations(s, m) == Sum([n \in DOMAIN s |-> Square[DblSub[s[n], m]]])

\* std is the square root of the squared deviations from the mean divided
\* by n, and its square times n is their sum where the root is exact
PopulationStd ==
    /\ result.std = DblSqrt[DblDiv[SquaredDeviations(values, result.mean),
                                   DblOfInt[Len(values)]]]
    /\ values = KnownSample =>
        DblMul[DblMul[result.std, result.std], DblOfInt[Len(values)]]
            = SquaredDeviations(values, result.mean)

\* mean 5 and std 2 for [2, 4, 4, 4, 5, 5, 7, 9]
KnownStd ==
    values = KnownSample => result.mean = DblOfInt[5] /\ result.std = DblOfInt[2]

(* C19: the std of a non-empty sample of n values is the population        *)
(* standard deviation (squared deviations from the mean divided by n, not  *)
(* by n - 1); it is exactly 0 for a constant sample, a single value        *)
(* included; for [2, 4, 4, 4, 5, 5, 7, 9] the mean is 5 and the std is 2.  *)
C19_PopulationStd ==
    (ComputeDone /\ values # <<>>) =>
        /\ PopulationStd
        /\ Uniform(values) => result.std = DblZero
        /\ KnownStd

\* the cases of C19 that hold: all but the constant samples of several values
C19_ExceptConstant ==
    (ComputeDone /\ values # <<>>) =>
        /\ PopulationStd
        /\ Len(values) = 1 => result.std = DblZero
        /\ KnownStd

\* the std of three values 0.1 is not zero
C19_ConstantStdNotZero ==
    /\ ComputeDone
    /\ values = <<Tenth, Tenth, Tenth>>
    /\ DblLt[DblZero, result.std]

\* the known sample has been computed
C19_KnownSampleDone == ComputeDone /\ values = KnownSample /\ result.std = DblOfInt[2]

\* the positions of the readings of the sensor
ReadingsOf(sid) == {n \in DOMAIN readings : readings[n].sensor_id = sid}

\* the number of readings of the sensor whose field f is not NaN
Measured(sid, f) == Cardinality({n \in ReadingsOf(sid) : ~isnan(Field(readings[n], f))})

(* C20: reading_count of a sensor's StatsResult is the maximum, over       *)
(* temperature, pressure and humidity, of the number of the sensor's       *)
(* readings whose value of the field is not NaN; it is at most the number  *)
(* of the sensor's readings, and 0 when all of them are NaN in all fields. *)
C20_ReadingCountIsMaxMeasured ==
    StatsDone =>
        \A a \in DOMAIN result :
            /\ \E f \in DOMAIN FieldNames :
                result[a][2].reading_count = Measured(result[a][1], f)
            /\ \A f \in DOMAIN FieldNames :
                Measured(result[a][1], f) <= result[a][2].reading_count
            /\ result[a][2].reading_count <= Cardinality(ReadingsOf(result[a][1]))
            /\ (\A n \in ReadingsOf(result[a][1]) : IsAllNaN(readings[n]))
                => result[a][2].reading_count = 0

\* a sensor whose fields have different numbers of values, the greatest
\* being less than the number of its readings, and a sensor without values
C20_Witness ==
    /\ StatsDone
    /\ \E a \in DOMAIN result : \E f \in DOMAIN FieldNames :
        /\ 0 < Measured(result[a][1], f)
        /\ Measured(result[a][1], f) < result[a][2].reading_count
        /\ result[a][2].reading_count < Cardinality(ReadingsOf(result[a][1]))

\* a sensor with readings and without values has the reading_count 0
C20_NoValues ==
    /\ StatsDone
    /\ \E a \in DOMAIN result :
        /\ \A n \in ReadingsOf(result[a][1]) : IsAllNaN(readings[n])
        /\ Cardinality(ReadingsOf(result[a][1])) > 1
        /\ result[a][2].reading_count = 0

----------------------------------------------------------------------------
(* sensors one by one *)

\* the number of the n-th reading among the readings of its sensor
RankInSensor(rs, n) == Cardinality({m \in 1..n : rs[m].sensor_id = rs[n].sensor_id})

\* the anomalies of the sensor, each with the number of its reading among
\* the readings of the sensor
AnomaliesOfSensor(rs, anomalies, sid) ==
    LET own == SelectSeq(anomalies, LAMBDA a : rs[a.reading].sensor_id = sid)
    IN  [n \in DOMAIN own |-> [own[n] EXCEPT !.reading = RankInSensor(rs, own[n].reading)]]

(* C25: sensors are processed independently.  For a sensor S the results   *)
(* for S are those of the input that holds the readings of S alone, in the *)
(* same order: the StatsResult of calculate_statistics, the anomalies of   *)
(* detect_anomalies (reading, field, value, z-score, in order) and the     *)
(* readings and placeholders of fill_missing_timestamps; so two inputs     *)
(* that differ only in the readings of other sensors agree on S.           *)
C25_SensorsIndependent ==
    \A sid \in SensorsOf(readings) :
        /\ StatsDone =>
            \A alone \in {calculate_statistics(OfSensor(readings, sid))} :
                Get(result, sid) = Get(alone, sid)
        /\ AnomaliesDone =>
            \A alone \in {detect_anomalies(OfSensor(readings, sid), z_threshold)} :
                AnomaliesOfSensor(readings, result, sid) = alone
        /\ FillDone =>
            \A alone \in {fill_missing_timestamps(OfSensor(readings, sid), interval)} :
                OfSensor(result, sid) = alone

\* the readings of a sensor with values stand around a reading of another
\* sensor with values of the same field, and statistics were computed
C25_Witness ==
    /\ StatsDone
    /\ Len(readings) = 3
    /\ readings[1].sensor_id = readings[3].sensor_id
    /\ readings[2].sensor_id # readings[1].sensor_id
    /\ \A n \in DOMAIN readings : ~isnan(readings[n].temperature)
    /\ readings[2].temperature # readings[1].temperature

\* anomalies of a sensor whose readings stand around one of another sensor
C25_AnomaliesCase ==
    /\ AnomaliesDone
    /\ Len(readings) = 3
    /\ readings[1].sensor_id = readings[3].sensor_id
    /\ readings[2].sensor_id # readings[1].sensor_id
    /\ \E a \in DOMAIN result : result[a].reading = 3

\* placeholders of a sensor in an output that holds two sensors
C25_FillCase ==
    /\ FillDone
    /\ Cardinality(SensorsOf(readings)) = 2
    /\ \E sid \in SensorsOf(readings) :
        Len(OfSensor(result, sid)) > Len(OfSensor(readings, sid))

----------------------------------------------------------------------------
(* statistics of the filled list *)

\* the mappings have the same keys and the same StatsResult for each key
SameStatistics(a, b) ==
    /\ Keys(a) = Keys(b)
    /\ \A sid \in Keys(a) : Get(a, sid) = Get(b, sid)

\* the pairs <<reading, field>> of the anomalies found in the list rs
FlaggedPairs(rs, anomalies) ==
    {<<rs[anomalies[n].reading], anomalies[n].field>> : n \in DOMAIN anomalies}

\* the anomalies of the filled list are those of the input, for a threshold
SameAnomalies(threshold) ==
    \A before \in {detect_anomalies(readings, threshold)} :
        \A after \in {detect_anomalies(result, threshold)} :
            /\ FlaggedPairs(readings, before) = FlaggedPairs(result, after)
            /\ \A n \in DOMAIN after : ~IsAllNaN(result[after[n].reading])

(* C26: gap filling does not change the statistics.  For an input rs and a *)
(* positive interval, calculate_statistics of the filled list equals       *)
(* calculate_statistics(rs): same sensors, same reading_count, same five   *)
(* statistics of every field; detect_anomalies on the filled list flags    *)
(* exactly the (reading, field) pairs it flags on rs, never a placeholder. *)
C26_FillKeepsStatistics ==
    (FillDone /\ interval > 0) =>
        /\ \A before \in {calculate_statistics(readings)} :
            \A after \in {calculate_statistics(result)} :
                SameStatistics(before, after)
        /\ \A threshold \in ZThresholds : SameAnomalies(threshold)

\* what holds of C26: sensors, reading_count, median, min and max, and the
\* flagged pairs
C26_ExceptSums ==
    (FillDone /\ interval > 0) =>
        /\ \A before \in {calculate_statistics(readings)} :
            \A after \in {calculate_statistics(result)} :
                /\ Keys(before) = Keys(after)
                /\ \A sid \in Keys(before) :
                    /\ Get(before, sid).reading_count = Get(after, sid).reading_count
                    /\ \A f \in DOMAIN FieldNames :
                        /\ Field(Get(before, sid), f).median = Field(Get(after, sid), f).median
                        /\ Field(Get(before, sid), f).min = Field(Get(after, sid), f).min
                        /\ Field(Get(before, sid), f).max = Field(Get(after, sid), f).max
        /\ \A threshold \in ZThresholds : SameAnomalies(threshold)

\* the mean of a sensor's temperatures differs between the input and the
\* filled list, which holds the same values in the order of the timestamps
C26_MeanChanged ==
    /\ FillDone /\ interval > 0
    /\ \E sid \in SensorsOf(readings) :
        /\ FieldValues(readings, sid, 1) # FieldValues(result, sid, 1)
        /\ compute_stats(FieldValues(readings, sid, 1)).mean
            # compute_stats(FieldValues(result, sid, 1)).mean

----------------------------------------------------------------------------
(* the filled list *)

(* C27: in the output of fill_missing_timestamps with a positive interval  *)
(* I, two readings of a sensor, real or placeholder, that are adjacent in  *)
(* the order of the sensor's timestamps are at most I seconds apart.       *)
C27_NoGapLeft ==
    (FillDone /\ interval > 0) =>
        \A sid \in SensorsOf(result) :
            \A a \in TsOfSensor(result, sid) : \A b \in TsOfSensor(result, sid) :
                AdjacentTs(TsOfSensor(result, sid), a, b) => b - a <= interval

\* a gap of three seconds filled at the interval 2: the placeholder stands
\* one second in front of the next reading
C27_Witness ==
    /\ FillDone /\ interval = 2
    /\ \E sid \in SensorsOf(readings) :
        /\ AdjacentTs(TsOfSensor(readings, sid), 1, 4)
        /\ TsOfSensor(result, sid) = {1, 3, 4}

(* C28: fill_missing_timestamps is idempotent for a positive interval:     *)
(* applied to its own output it adds no placeholder and changes neither    *)
(* the readings nor their order, NaN fields compared as NaN, for inputs    *)
(* out of order, of several sensors and with repeated keys.                *)
C28_FillIdempotent ==
    (FillDone /\ interval > 0) =>
        \A again \in {fill_missing_timestamps(result, interval)} :
            /\ Len(again) = Len(result)
            /\ \A n \in DOMAIN result : again[n] = result[n]

\* an input out of order and with a repeated key, to which a placeholder
\* was added
C28_Witness ==
    /\ FillDone /\ interval > 0
    /\ ~SortedByKey(readings)
    /\ \E n \in DOMAIN readings : \E m \in DOMAIN readings :
        n # m /\ Key(readings[n]) = Key(readings[m])
    /\ Len(result) > Len(readings)

\* an input of two sensors, out of order, to which a placeholder was added
C28_TwoSensors ==
    /\ FillDone /\ interval > 0
    /\ ~SortedByKey(readings)
    /\ Cardinality(SensorsOf(readings)) = 2
    /\ Len(result) > Len(readings)

\* several placeholders in one gap
C28_LongGap == FillDone /\ interval > 0 /\ Len(result) > Len(readings) + 1

\* the number of readings of the list with the key
CountKey(rs, key) == Cardinality({n \in DOMAIN rs : Key(rs[n]) = key})

KeysOf(rs) == {Key(rs[n]) : n \in DOMAIN rs}

(* C29: a placeholder of fill_missing_timestamps never has the key         *)
(* (timestamp, sensor_id) of an input reading or of another placeholder:   *)
(* a key of the input is in the output as often as in the input, any       *)
(* other key at most once; so when no two input readings have the same     *)
(* key, no two output readings have, and remove_duplicates removes nothing *)
(* from the output.                                                        *)
C29_PlaceholderKeysFresh ==
    (FillDone /\ interval > 0) =>
        /\ \A key \in KeysOf(readings) : CountKey(result, key) = CountKey(readings, key)
        /\ \A key \in KeysOf(result) \ KeysOf(readings) : CountKey(result, key) = 1
        /\ (\A key \in KeysOf(readings) : CountKey(readings, key) = 1) =>
            /\ \A key \in KeysOf(result) : CountKey(result, key) = 1
            /\ remove_duplicates(result) = result

\* readings without a repeated key, one of them without values, and two
\* placeholders added
C29_Witness ==
    /\ FillDone /\ interval > 0
    /\ \A key \in KeysOf(readings) : CountKey(readings, key) = 1
    /\ \E n \in DOMAIN readings : IsAllNaN(readings[n])
    /\ Len(result) = Len(readings) + 2
    /\ remove_duplicates(result) = result

----------------------------------------------------------------------------
(* few values *)

\* the z-score of the largest deviation among n values is at most sqrt(n - 1),
\* which is 2 for five values

(* C30: at the default z_threshold 2.0 detect_anomalies flags no reading   *)
(* of a sensor in a field of which the sensor has at most five non-NaN     *)
(* values.                                                                 *)
C30_FewValuesNotFlagged ==
    (AnomaliesDone /\ z_threshold = DefaultZThreshold) =>
        \A n \in DOMAIN readings : \A f \in DOMAIN FieldNames :
            Len(SampleOf(n, f)) <= 5 => ~IsFlagged(n, f)

\* the same for at most four values, where sqrt(n - 1) is below 2
C30_ExceptFive ==
    (AnomaliesDone /\ z_threshold = DefaultZThreshold) =>
        \A n \in DOMAIN readings : \A f \in DOMAIN FieldNames :
            Len(SampleOf(n, f)) < 5 => ~IsFlagged(n, f)

\* one value 2 among four values 5: the z-score of the 2 is
\* 2.0000000000000004 and the reading is flagged at the default threshold
C30_FiveValuesFlagged ==
    /\ AnomaliesDone /\ z_threshold = DefaultZThreshold
    /\ \E n \in DOMAIN readings : \E f \in DOMAIN FieldNames :
        /\ Len(SampleOf(n, f)) = 5
        /\ IsFlagged(n, f)
        /\ \A a \in DOMAIN result :
            (result[a].reading = n /\ result[a].field = FieldNames[f]) =>
                /\ result[a].value = DblOfInt[2]
                /\ ~DblLe[result[a].z_score, DefaultZThreshold]

----------------------------------------------------------------------------
(* the counts of the validators *)

BatchDone == op = "validate_batch" /\ pc = "done"

\* total is the number of inputs, valid + invalid = total, and errors has
\* one entry for each invalid input
CountsAgree(inputs) ==
    /\ report.total = Len(inputs)
    /\ report.valid + report.invalid = report.total
    /\ report.valid >= 0 /\ report.invalid >= 0
    /\ Len(report.errors) = report.invalid

(* C24: for validate_batch(readings) and validate_rows(rows), total is the *)
(* length of the input, valid + invalid = total and errors has invalid     *)
(* entries; in validate_batch the indices of the errors are strictly       *)
(* ascending and are exactly the positions of the readings for which       *)
(* validate_reading returns a non-empty list.                              *)
C24_ValidationCounts ==
    /\ (op = "validate_rows" /\ pc = "done") => CountsAgree(rows)
    /\ BatchDone =>
        /\ CountsAgree(readings)
        /\ \A a \in DOMAIN report.errors : \A b \in DOMAIN report.errors :
            a < b => report.errors[a].index < report.errors[b].index
        /\ {report.errors[a].index : a \in DOMAIN report.errors}
            = {n - 1 : n \in {m \in DOMAIN readings : validate_reading(readings[m]) # <<>>}}

\* validate_batch on an invalid reading with two messages, a valid one and
\* another invalid one
C24_Witness ==
    /\ BatchDone
    /\ Len(readings) = 3
    /\ Len(validate_reading(readings[1])) = 2
    /\ validate_reading(readings[2]) = <<>>
    /\ validate_reading(readings[3]) # <<>>
    /\ report.valid = 1 /\ report.invalid = 2
    /\ report.errors[2].index = 2

\* validate_rows on a row that fails to parse, a valid row and a row that
\* parses and fails validation
C24_RowsMixed ==
    /\ op = "validate_rows" /\ pc = "done"
    /\ Len(rows) = 3
    /\ report.valid = 1 /\ report.invalid = 2
    /\ ~parse_row(rows[1], 0).ok
    /\ parse_row(rows[3], 2).ok

----------------------------------------------------------------------------
(* the report *)

ReportDone == op = "generate_report" /\ pc = "done"

(* C21: in the report of generate_report, summary.total_readings is the    *)
(* length of the input list, duplicates and readings without values        *)
(* included; summary.sensor_count is the number of distinct sensor_ids and *)
(* the number of keys of sensors; for the empty input the report has       *)
(* total_readings 0, sensor_count 0, time_range None, no sensors and no    *)
(* anomalies.                                                              *)
C21_ReportCounts ==
    ReportDone =>
        /\ report.summary.total_readings = Len(readings)
        /\ report.summary.sensor_count = Cardinality(SensorsOf(readings))
        /\ report.summary.sensor_count = Len(report.sensors)
        /\ Keys(report.sensors) = SensorsOf(readings)
        /\ readings = <<>> =>
            /\ report.summary.total_readings = 0
            /\ report.summary.sensor_count = 0
            /\ report.summary.time_range = None
            /\ report.sensors = <<>>
            /\ report.anomalies = <<>>

\* two readings of one sensor with the same timestamp and without values
C21_Witness ==
    /\ ReportDone
    /\ Len(readings) = 2
    /\ readings[1] = readings[2]
    /\ IsAllNaN(readings[1])
    /\ report.summary.total_readings = 2
    /\ report.summary.sensor_count = 1

\* the report of the empty input
C21_EmptyReport == ReportDone /\ readings = <<>> /\ report.summary.time_range = None

(* C22: summary.time_range is None if and only if the input is empty;      *)
(* otherwise start is the least and end the greatest timestamp of all the  *)
(* readings of all sensors, in any input order, so start <= end and every  *)
(* timestamp lies between them.                                            *)
C22_TimeRangeIsMinMax ==
    ReportDone =>
        /\ report.summary.time_range = None <=> readings = <<>>
        /\ readings # <<>> =>
            /\ \E n \in DOMAIN readings :
                /\ report.summary.time_range.start = isoformat(readings[n].timestamp)
                /\ \A m \in DOMAIN readings : readings[n].timestamp <= readings[m].timestamp
            /\ \E n \in DOMAIN readings :
                /\ report.summary.time_range.end = isoformat(readings[n].timestamp)
                /\ \A m \in DOMAIN readings : readings[m].timestamp <= readings[n].timestamp
            /\ StrLe(report.summary.time_range.start, report.summary.time_range.end)
            /\ \A n \in DOMAIN readings :
                /\ StrLe(report.summary.time_range.start, isoformat(readings[n].timestamp))
                /\ StrLe(isoformat(readings[n].timestamp), report.summary.time_range.end)

\* the later reading stands first and belongs to another sensor than the
\* earlier one
C22_Witness ==
    /\ ReportDone
    /\ Len(readings) = 2
    /\ readings[1].sensor_id # readings[2].sensor_id
    /\ readings[2].timestamp < readings[1].timestamp
    /\ report.summary.time_range.start = isoformat(readings[2].timestamp)
    /\ report.summary.time_range.end = isoformat(readings[1].timestamp)

\* the names of the statistics and the statistic of the name
StatNames == <<"mean", "median", "std", "min", "max">>

(* C23: in the report a statistic of a sensor is None exactly when the     *)
(* statistic is NaN and a number otherwise, so no NaN appears in sensors;  *)
(* for a sensor without a non-NaN value of a field the five entries of the *)
(* field are None.                                                         *)
C23_NoneIffNaN ==
    ReportDone =>
        \A stats \in {calculate_statistics(readings)} :
            \A a \in DOMAIN report.sensors : \A f \in DOMAIN FieldNames :
                /\ \A n \in DOMAIN StatNames :
                    /\ (Field(report.sensors[a][2], f)[StatNames[n]] = None)
                        <=> isnan(Field(Get(stats, report.sensors[a][1]), f)[StatNames[n]])
                    /\ Field(report.sensors[a][2], f)[StatNames[n]] # None =>
                        /\ Field(report.sensors[a][2], f)[StatNames[n]] \in Float
                        /\ ~isnan(Field(report.sensors[a][2], f)[StatNames[n]])
                /\ FieldValues(readings, report.sensors[a][1], f) = <<>> =>
                    \A n \in DOMAIN StatNames :
                        Field(report.sensors[a][2], f)[StatNames[n]] = None

\* a sensor with numbers for one field and None for another one
C23_Witness ==
    /\ ReportDone
    /\ \E a \in DOMAIN report.sensors :
        /\ report.sensors[a][2].humidity.mean = None
        /\ report.sensors[a][2].humidity.std = None
        /\ report.sensors[a][2].temperature.mean # None
        /\ report.sensors[a][2].temperature.std # None
        /\ Len(FieldValues(readings, report.sensors[a][1], 1)) > 1

----------------------------------------------------------------------------
(* validate_rows *)

RowsDone == op = "validate_rows" /\ pc = "done"

\* what is wrong with the row at position n (0-based): <<>> for a valid row
RowMessages(rws, n) ==
    IF ~parse_row(rws[n + 1], n).ok THEN <<parse_row(rws[n + 1], n).val>>
    ELSE validate_reading(parse_row(rws[n + 1], n).val)

InvalidRowIndices(rws) == {n \in 0..(Len(rws) - 1) : RowMessages(rws, n) # <<>>}

(* C3: every entry of 'errors' carries as 'index' the position in rows of  *)
(* the invalid row it describes, for parse failures and validation         *)
(* failures alike; each invalid row has exactly one entry and no two       *)
(* entries share an index.                                                 *)
C3_ErrorIndexIsRowPosition ==
    RowsDone =>
        /\ \A e \in DOMAIN report.errors :
              /\ report.errors[e].index \in InvalidRowIndices(rows)
              /\ report.errors[e].messages = RowMessages(rows, report.errors[e].index)
        /\ \A n \in InvalidRowIndices(rows) :
              Cardinality({e \in DOMAIN report.errors : report.errors[e].index = n}) = 1

----------------------------------------------------------------------------
(* fill_missing_timestamps, statement by statement *)

\* the statements build the list the function is defined to return
StepwiseAgrees ==
    (FillDone /\ interval > 0) => result = fill_missing_timestamps(readings, interval)

(* C1: fill_missing_timestamps rejects interval_seconds <= 0: such a call  *)
(* ends in an error and never returns a list nor loops without bound.      *)
C1_NonPositiveIntervalRejected ==
    (op = "fill_missing_timestamps" /\ interval <= 0) => pc \notin {"done", "gap"}

(* C4: fill_missing_timestamps terminates for every finite input list and  *)
(* every positive interval_seconds: each placeholder loop reaches a        *)
(* timestamp >= the next reading's timestamp, and the call returns.        *)
C4_FillTerminates == (op = "fill_missing_timestamps" /\ interval > 0) ~> (pc = "done")

\* a call with a positive interval returned after a loop of several placeholders
C4_Witness ==
    /\ FillDone /\ interval > 0
    /\ k > 0
    /\ Len(result) >= Len(readings) + 2

====
